---- MODULE Spec2Model ----
(***************************************************************************)
(* pgp-disc: the session dispatch engine (crates/app/src/main.rs) with the *)
(* payload detector (crates/crypto/src/lib.rs), the decrypt-failure        *)
(* classification (crates/crypto/src/gpg.rs) and the transport boundary    *)
(* (crates/transport/src/lib.rs).                                          *)
(*                                                                         *)
(* Text.  A Rust String is a sequence of atoms.  An atom is a TLA+ string  *)
(* standing for a run of characters that the program never looks inside:  *)
(* one whitespace character (" ", "\t", "\n"), one digit, or a chunk of    *)
(* non-whitespace text ("pgp", "-----", "BEGIN").  Adjacent                *)
(* non-whitespace atoms form one word, exactly as adjacent characters do.  *)
(* ANSI colouring and the wall-clock timestamp of rendered lines are left  *)
(* out of the rendered text.                                               *)
(***************************************************************************)
EXTENDS Integers, Sequences, FiniteSets, TLC

(***************************************************************************)
(* Option<T> is a sequence of length 0 (None) or 1 (Some(x)).              *)
(* Result<T, E> is a record [ok |-> TRUE, ...] or [ok |-> FALSE, err].     *)
(***************************************************************************)
None == <<>>
Some(x) == <<x>>
IsSome(o) == Len(o) = 1
Unwrap(o) == o[1]

Min(a, b) == IF a <= b THEN a ELSE b
Max(a, b) == IF a >= b THEN a ELSE b

\* ------------------------------------------------------------------ text

WS == {" ", "\t", "\n"}

IsWs(a) == a \in WS

\* str::trim: leading and trailing whitespace removed.
RECURSIVE trim_start(_)
trim_start(s) ==
    IF s = <<>> THEN <<>>
    ELSE IF IsWs(Head(s)) THEN trim_start(Tail(s))
    ELSE s

RECURSIVE trim_end(_)
trim_end(s) ==
    IF s = <<>> THEN <<>>
    ELSE IF IsWs(s[Len(s)]) THEN trim_end(SubSeq(s, 1, Len(s) - 1))
    ELSE s

trim(s) == trim_end(trim_start(s))

\* str::split_whitespace, collected: the maximal runs of non-whitespace.
RECURSIVE split_from(_, _, _)
split_from(s, cur, acc) ==
    IF s = <<>> THEN (IF cur = <<>> THEN acc ELSE Append(acc, cur))
    ELSE IF IsWs(Head(s))
         THEN split_from(Tail(s), <<>>, IF cur = <<>> THEN acc ELSE Append(acc, cur))
         ELSE split_from(Tail(s), Append(cur, Head(s)), acc)

split_whitespace(s) == split_from(s, <<>>, <<>>)

\* [T]::join(" ")
RECURSIVE join(_, _)
join(ts, sep) ==
    IF ts = <<>> THEN <<>>
    ELSE IF Len(ts) = 1 THEN ts[1]
    ELSE ts[1] \o sep \o join(Tail(ts), sep)

\* Whether needle occurs in hay at (1-based) position i.
MatchAt(hay, needle, i) ==
    /\ i >= 1
    /\ i + Len(needle) - 1 <= Len(hay)
    /\ \A k \in 1..Len(needle) : hay[i + k - 1] = needle[k]

\* str::find: Some(first position, 0-based) or None.
find(hay, needle) ==
    LET hits == {i \in 1..(Len(hay) - Len(needle) + 1) : MatchAt(hay, needle, i)}
    IN  IF hits = {} THEN None
        ELSE Some((CHOOSE i \in hits : \A j \in hits : i <= j) - 1)

contains(hay, needle) == IsSome(find(hay, needle))

\* str::to_lowercase, atom by atom (the atoms of the model that have an
\* upper-case letter).
LowerAtom(a) ==
    CASE a = "No" -> "no"
      [] a = "NO" -> "no"
      [] a = "Secret" -> "secret"
      [] a = "Key" -> "key"
      [] a = "OpenPGP" -> "openpgp"
      [] a = "CRC" -> "crc"
      [] a = "Bad" -> "bad"
      [] a = "Armor" -> "armor"
      [] OTHER -> a

to_lowercase(s) == [i \in 1..Len(s) |-> LowerAtom(s[i])]

\* Decimal digits.
DigitAtoms == <<"0", "1", "2", "3", "4", "5", "6", "7", "8", "9">>

IsDigit(a) == \E d \in 1..10 : DigitAtoms[d] = a

DigitVal(a) == (CHOOSE d \in 1..10 : DigitAtoms[d] = a) - 1

\* u64::to_string / usize::to_string
RECURSIVE to_string(_)
to_string(n) ==
    IF n < 10 THEN <<DigitAtoms[n + 1]>>
    ELSE Append(to_string(n \div 10), DigitAtoms[(n % 10) + 1])

\* str::parse::<u64>() and ::<usize>(): an optional "+", then one or more
\* digits.  The numerals of the model are short, so the value never
\* overflows the integer type; MaxNumeralLen is where the model stops.
MaxNumeralLen == 8

RECURSIVE digits_value(_, _)
digits_value(s, acc) ==
    IF s = <<>> THEN acc
    ELSE digits_value(Tail(s), 10 * acc + DigitVal(Head(s)))

parse_int(tok) ==
    LET body == IF tok # <<>> /\ Head(tok) = "+" THEN Tail(tok) ELSE tok
    IN  IF body # <<>> /\ Len(body) <= MaxNumeralLen
           /\ \A i \in 1..Len(body) : IsDigit(body[i])
        THEN [ok |-> TRUE, val |-> digits_value(body, 0)]
        ELSE [ok |-> FALSE, val |-> 0]

\* ------------------------------------------------- payload detector

BEGIN == <<"-----", "BEGIN", " ", "PGP", " ", "MESSAGE", "-----">>
END == <<"-----", "END", " ", "PGP", " ", "MESSAGE", "-----">>

\* The block from the begin marker at start through the end marker found
\* at end_rel after it, trimmed.
block_between(input, start, end_rel) ==
    IF ~IsSome(end_rel) THEN None
    ELSE Some(trim(SubSeq(input, start + 1, start + Unwrap(end_rel) + Len(END))))

\* A faulty extraction: the end marker is looked for in the whole input.
block_from_any_end(input, start) ==
    IF ~IsSome(start) THEN None
    ELSE IF ~IsSome(find(input, END)) THEN None
    ELSE Some(trim(SubSeq(input, Unwrap(start) + 1,
                          Unwrap(find(input, END)) + Len(END))))

block_from(input, start) ==
    IF ~IsSome(start) THEN None
    ELSE block_between(input, Unwrap(start),
                       find(SubSeq(input, Unwrap(start) + 1, Len(input)), END))

extract_pgp_message_block(input) == block_from(input, find(input, BEGIN))

\* The digest.  SHA-256 is stood in for by a polynomial hash of the atoms,
\* and the identifier keeps IdBytes bytes of it (the program keeps 8): like
\* the real one it is a function of the block alone, it is written in
\* lower-case hex, and two blocks may collide.
IdBytes == 2

Alphabet ==
    <<"-----", "BEGIN", "END", "PGP", "MESSAGE", " ", "\n", "\t",
      "0", "1", "2", "3", "4", "5", "6", "7", "8", "9",
      "hQEMA", "wcBMA", "=", "alice", "bob", "secret", "text", "hi">>

AtomCode(a) ==
    IF \E i \in 1..Len(Alphabet) : Alphabet[i] = a
    THEN CHOOSE i \in 1..Len(Alphabet) : Alphabet[i] = a
    ELSE Len(Alphabet) + 1

RECURSIVE digest(_, _)
digest(s, h) ==
    IF s = <<>> THEN h
    ELSE digest(Tail(s), (h * 31 + AtomCode(Head(s))) % (2 ^ (8 * IdBytes)))

HexAtoms ==
    <<"0", "1", "2", "3", "4", "5", "6", "7", "8", "9", "a", "b", "c", "d", "e", "f">>

\* hex::encode of n hex digits of v, most significant first.
RECURSIVE hex_encode(_, _)
hex_encode(v, n) ==
    IF n = 0 THEN <<>>
    ELSE Append(hex_encode(v \div 16, n - 1), HexAtoms[(v % 16) + 1])

pgp_block_id(block) == hex_encode(digest(block, 7), 2 * IdBytes)

\* Some(<<id, block>>) or None.
id_and_block(block) ==
    IF ~IsSome(block) THEN None
    ELSE Some(<<pgp_block_id(Unwrap(block)), Unwrap(block)>>)

detect_pgp(input) == id_and_block(extract_pgp_message_block(input))

\* ---------------------------------------------------- crypto gateway

\* What the external gpg executable does during one step of the loop: it is
\* outside the program, so each step draws one behaviour.
\*   "ok"       every call succeeds
\*   "keyed"    decrypts the blocks addressed to the local key (those with
\*              an even digest) and reports no secret key for the others
\*   "nokey"    no usable key: decrypt and encrypt fail
\*   "badarmor" decrypt reports malformed input
\*   "failed"   gpg exits with a failure that names neither
\*   "absent"   the executable cannot be run
GpgRuns == {"ok", "keyed", "nokey", "badarmor", "failed", "absent"}

StderrNoKey ==
    <<"gpg:", " ", "decryption", " ", "failed:", " ", "No", " ", "Secret", " ", "Key", "\n">>
StderrBadArmor ==
    <<"gpg:", " ", "CRC", " ", "error;", " ", "Bad", " ", "Armor", "\n">>
StderrFailed ==
    <<"gpg:", " ", "decryption", " ", "failed:", " ", "Bad", " ", "session", " ", "key", "\n">>
StderrEncrypt ==
    <<"gpg:", " ", "public", " ", "key", " ", "not", " ", "found", "\n">>

Plaintext == <<"attack", " ", "at", " ", "dawn", "\n">>

\* A faulty classification: the invalid-framing phrases are tried first.
classify_framing_first(stderr, s) ==
    IF \/ contains(s, <<"no", " ", "valid", " ", "openpgp", " ", "data", " ", "found">>)
       \/ contains(s, <<"invalid", " ", "armor", " ", "header">>)
       \/ contains(s, <<"crc", " ", "error">>)
       \/ contains(s, <<"unexpected", " ", "end", " ", "of", " ", "file">>)
       \/ contains(s, <<"bad", " ", "armor">>)
       \/ contains(s, <<"invalid", " ", "packet">>)
    THEN [variant |-> "InvalidMessage", stderr |-> stderr]
    ELSE IF \/ contains(s, <<"no", " ", "secret", " ", "key">>)
            \/ contains(s, <<"decryption", " ", "failed:", " ", "no", " ", "secret", " ", "key">>)
            \/ contains(s, <<"secret", " ", "key", " ", "not", " ", "available">>)
    THEN [variant |-> "NotForMe", stderr |-> stderr]
    ELSE [variant |-> "GpgFailed", stderr |-> stderr]

\* The variant for a diagnostic, s being the diagnostic in lower case.
classify_lowercased(stderr, s) ==
    IF \/ contains(s, <<"no", " ", "secret", " ", "key">>)
       \/ contains(s, <<"decryption", " ", "failed:", " ", "no", " ", "secret", " ", "key">>)
       \/ contains(s, <<"secret", " ", "key", " ", "not", " ", "available">>)
    THEN [variant |-> "NotForMe", stderr |-> stderr]
    ELSE IF \/ contains(s, <<"no", " ", "valid", " ", "openpgp", " ", "data", " ", "found">>)
            \/ contains(s, <<"invalid", " ", "armor", " ", "header">>)
            \/ contains(s, <<"crc", " ", "error">>)
            \/ contains(s, <<"unexpected", " ", "end", " ", "of", " ", "file">>)
            \/ contains(s, <<"bad", " ", "armor">>)
            \/ contains(s, <<"invalid", " ", "packet">>)
    THEN [variant |-> "InvalidMessage", stderr |-> stderr]
    ELSE [variant |-> "GpgFailed", stderr |-> stderr]

classify_decrypt_failure(stderr) == classify_lowercased(stderr, to_lowercase(stderr))

\* The gpg child process of one decrypt call: whether it could be spawned,
\* its exit status and its output.
GpgDecryptProcess(g, armored) ==
    CASE g = "absent" -> [spawned |-> FALSE, success |-> FALSE, stdout |-> <<>>, stderr |-> <<>>]
      [] g = "ok" -> [spawned |-> TRUE, success |-> TRUE, stdout |-> Plaintext, stderr |-> <<>>]
      [] g = "keyed" ->
            IF digest(armored, 7) % 2 = 0
            THEN [spawned |-> TRUE, success |-> TRUE, stdout |-> Plaintext, stderr |-> <<>>]
            ELSE [spawned |-> TRUE, success |-> FALSE, stdout |-> <<>>, stderr |-> StderrNoKey]
      [] g = "nokey" -> [spawned |-> TRUE, success |-> FALSE, stdout |-> <<>>, stderr |-> StderrNoKey]
      [] g = "badarmor" -> [spawned |-> TRUE, success |-> FALSE, stdout |-> <<>>, stderr |-> StderrBadArmor]
      [] OTHER -> [spawned |-> TRUE, success |-> FALSE, stdout |-> <<>>, stderr |-> StderrFailed]

\* decrypt, from the child process on.
decrypt_child(child) ==
    IF ~child.spawned
    THEN [ok |-> FALSE, err |-> [variant |-> "Io", stderr |-> <<"Failed to spawn gpg">>]]
    ELSE IF child.success
    THEN [ok |-> TRUE, val |-> child.stdout]
    ELSE [ok |-> FALSE, err |-> classify_decrypt_failure(child.stderr)]

decrypt(armored, g) == decrypt_child(GpgDecryptProcess(g, armored))

\* gpg --armor --encrypt -r recipient: the armored text on success.
Armored(recipient, plaintext) ==
    BEGIN \o <<"\n", "\n", "hQEMA">>
          \o hex_encode(digest(recipient \o <<"\n">> \o plaintext, 7), 2 * IdBytes)
          \o <<"\n">> \o END \o <<"\n">>

encrypt_to_recipient(recipient, plaintext, g) ==
    CASE g = "absent" -> [ok |-> FALSE, err |-> <<"Failed to spawn gpg">>]
      [] g \in {"ok", "keyed", "badarmor"} -> [ok |-> TRUE, val |-> Armored(recipient, plaintext)]
      [] OTHER -> [ok |-> FALSE, err |-> <<"gpg encrypt failed: ">> \o StderrEncrypt]

\* Result<bool>: NotFound is Ok(false).
available(g) == [ok |-> TRUE, val |-> g # "absent"]

version_line(g) ==
    IF g = "absent" THEN [ok |-> FALSE, err |-> <<"Failed to run gpg">>]
    ELSE [ok |-> TRUE, val |-> <<"gpg", " ", "(GnuPG)", " ", "2.4">>]

list_secret_fingerprints(g) ==
    CASE g = "absent" -> [ok |-> FALSE, err |-> <<"Failed to run gpg">>]
      [] g = "failed" -> [ok |-> FALSE, err |-> <<"gpg list-secret-keys failed: ">> \o StderrFailed]
      [] g = "nokey" -> [ok |-> TRUE, val |-> <<>>]
      [] OTHER -> [ok |-> TRUE, val |-> << <<"AAAA1111">> >>]

\* Vec<PublicKey>: fpr and Option<uid>.
list_public_keys(g) ==
    CASE g = "absent" -> [ok |-> FALSE, err |-> <<"Failed to run gpg">>]
      [] g = "failed" -> [ok |-> FALSE, err |-> <<"gpg list-keys failed: ">> \o StderrFailed]
      [] g = "nokey" -> [ok |-> TRUE, val |-> <<>>]
      [] OTHER -> [ok |-> TRUE,
                   val |-> << [fpr |-> <<"AAAA1111">>, uid |-> Some(<<"alice">>)],
                              [fpr |-> <<"BBBB2222">>, uid |-> None] >>]

\* ---------------------------------------------------------- transport

\* What the chat service does during one step: "ok" or "err" (an HTTP error).
NetRuns == {"ok", "err"}

\* The static configuration read at start (DISCORD_CHANNEL_ID).
cfg == [channel_id |-> 7]

\* The channel a session override names.
OtherChannel == 42

TransportError == <<"Discord HTTP error: ", "503">>

send_message(channel_id, content, t) ==
    IF t = "ok" THEN [ok |-> TRUE] ELSE [ok |-> FALSE, err |-> TransportError]

\* The armored text of a block with the given body.
BlockText(body) == BEGIN \o <<"\n", "\n">> \o body \o <<"\n">> \o END

\* The channel's stored history, oldest first: ArchiveLen messages, each
\* carrying its own block, but for every PlainEvery-th, which is plain text.
ArchiveLen == 56
PlainEvery == 13

ArchiveMsg(channel_id, i) ==
    [channel_id |-> channel_id,
     author |-> <<"bob">>,
     content |-> IF i % PlainEvery = 0
                 THEN <<"msg", " ">> \o to_string(i)
                 ELSE <<"see:", "\n">> \o BlockText(<<"hQEMA">> \o to_string(i)) \o <<"\n">>]

\* The last min(limit, ArchiveLen) messages of the channel, oldest first.
fetch_messages(channel_id, limit, t) ==
    IF t # "ok" THEN [ok |-> FALSE, err |-> TransportError]
    ELSE LET k == Min(limit, ArchiveLen)
         IN  [ok |-> TRUE,
              val |-> [j \in 1..k |-> ArchiveMsg(channel_id, ArchiveLen - k + j)]]

\* ------------------------------------------------------------ rendering

render_warn(msg) == <<"warn:", " ">> \o msg

render_error(msg) == <<"!", " ">> \o msg

render_help == <<"Commands:", "\n", "PGP:", "\n", "Session exports (live only):", "\n">>

render_incoming(author, content) ==
    <<"\n", "<-", " ">> \o author \o <<":", " ">> \o content

render_outgoing_sent == <<"->", " ", "sent">>

render_pgp_decrypted(author, id, plaintext) ==
    <<"\n", "<-", " ">> \o author \o <<":", " ", "[PGP]", " ", "id=">> \o id
        \o <<" ", "decrypted", " ", "\n">> \o plaintext

render_pgp_invalid(author, id) ==
    <<"\n", "<-", " ">> \o author \o <<":", " ", "[PGP]", " ", "id=">> \o id
        \o <<" ", "invalid">>

render_pgp_error(author, id) ==
    <<"\n", "<-", " ">> \o author \o <<":", " ", "[PGP]", " ", "id=">> \o id
        \o <<" ", "decrypt", " ", "error">>

render_pgp_unknown(author, id) ==
    <<"\n", "<-", " ">> \o author \o <<":", " ", "[PGP]", " ", "id=">> \o id
        \o <<" ", "not", " ", "for", " ", "me">>

\* A call into the crypto gateway or the transport, as the step's log keeps it.
CallDecrypt(block) == [fn |-> "decrypt", block |-> block]
CallEncrypt(recipient, plaintext) ==
    [fn |-> "encrypt", recipient |-> recipient, plaintext |-> plaintext]
CallSend(channel_id, content) ==
    [fn |-> "send_message", channel_id |-> channel_id, content |-> content]
CallFetch(channel_id, limit) ==
    [fn |-> "fetch_messages", channel_id |-> channel_id, limit |-> limit]
CallGpg(name) == [fn |-> name]

\* render_decrypt_attempt, from the result r of decrypt on.
render_decrypt_result(id, r) ==
    IF r.ok THEN << <<"Decrypted", " ", "(id=">> \o id \o <<")">>, r.val >>
    ELSE IF r.err.variant = "NotForMe"
    THEN << <<"Not", " ", "for", " ", "me", " ", "(id=">> \o id \o <<")">> >>
    ELSE IF r.err.variant = "InvalidMessage"
    THEN << <<"Invalid", " ", "PGP", " ", "message", " ", "(id=">> \o id \o <<")">> >>
    ELSE << <<"Decrypt", " ", "error", " ", "(id=">> \o id \o <<")">> >>

render_decrypt_attempt(id, block, g) == render_decrypt_result(id, decrypt(block, g))

\* ---------------------------------------------------------- inbox cache

InboxCap == 50

\* while pgp_inbox.len() > 50 { pgp_inbox.pop_front(); }
\* Faulty variants of the eviction: none at all, and of the newest entries.
record_unbounded(inbox, id, block) == Append(inbox, <<id, block>>)

RECURSIVE evict_newest(_)
evict_newest(inbox) ==
    IF Len(inbox) > InboxCap THEN evict_newest(SubSeq(inbox, 1, Len(inbox) - 1)) ELSE inbox

\* A faulty record: a block whose fingerprint the cache already holds is
\* not entered again.
record_coalescing(inbox, id, block) ==
    IF \E i \in 1..Len(inbox) : inbox[i][1] = id
    THEN inbox
    ELSE IF Len(inbox) + 1 > InboxCap
    THEN Append(Tail(inbox), <<id, block>>)
    ELSE Append(inbox, <<id, block>>)

RECURSIVE evict(_)
evict(inbox) == IF Len(inbox) > InboxCap THEN evict(Tail(inbox)) ELSE inbox

\* pgp_inbox.push_back((id, block)) and the eviction that follows it.
record(inbox, id, block) == evict(Append(inbox, <<id, block>>))

\* A faulty lookup: the newest entry when no entry has the id.
inbox_find_or_back(inbox, id) ==
    IF \E i \in 1..Len(inbox) : inbox[i][1] = id
    THEN Some(inbox[CHOOSE i \in 1..Len(inbox) :
                       inbox[i][1] = id /\ \A j \in 1..(i - 1) : inbox[j][1] # id])
    ELSE IF inbox = <<>> THEN None ELSE Some(inbox[Len(inbox)])

\* pgp_inbox.iter().find(|(i, _)| i == id).cloned()
inbox_find(inbox, id) ==
    LET hits == {i \in 1..Len(inbox) : inbox[i][1] = id}
    IN  IF hits = {} THEN None
        ELSE Some(inbox[CHOOSE i \in hits : \A j \in hits : i <= j])

\* A faulty latest: the oldest entry.
inbox_front(inbox) == IF inbox = <<>> THEN None ELSE Some(inbox[1])

\* pgp_inbox.back().cloned()
inbox_back(inbox) == IF inbox = <<>> THEN None ELSE Some(inbox[Len(inbox)])

\* ----------------------------------------------------- chat-event handler

\* The line for a block of the event, by the result r of decrypt.
render_pgp(author, id, r) ==
    IF r.ok THEN render_pgp_decrypted(author, id, r.val)
    ELSE IF r.err.variant = "NotForMe" THEN render_pgp_unknown(author, id)
    ELSE IF r.err.variant = "InvalidMessage" THEN render_pgp_invalid(author, id)
    ELSE render_pgp_error(author, id)

\* A faulty handler: the block is recorded only once it has decrypted.
chat_event_recorded_on_success(ev, inbox, d, g) ==
    IF IsSome(d)
    THEN [ok |-> TRUE,
          lines |-> <<render_pgp(ev.author, Unwrap(d)[1], decrypt(Unwrap(d)[2], g))>>,
          err |-> <<>>,
          inbox |-> IF decrypt(Unwrap(d)[2], g).ok
                    THEN record(inbox, Unwrap(d)[1], Unwrap(d)[2]) ELSE inbox,
          calls |-> <<CallDecrypt(Unwrap(d)[2])>>,
          recorded |-> IF decrypt(Unwrap(d)[2], g).ok THEN <<Unwrap(d)>> ELSE <<>>]
    ELSE [ok |-> TRUE,
          lines |-> <<render_incoming(ev.author, ev.content)>>,
          err |-> <<>>,
          inbox |-> inbox,
          calls |-> <<>>,
          recorded |-> <<>>]

\* handle_chat_event, from the result d of detect_pgp on.
chat_event_detected(ev, inbox, d, g) ==
    IF IsSome(d)
    THEN [ok |-> TRUE,
          lines |-> <<render_pgp(ev.author, Unwrap(d)[1], decrypt(Unwrap(d)[2], g))>>,
          err |-> <<>>,
          inbox |-> record(inbox, Unwrap(d)[1], Unwrap(d)[2]),
          calls |-> <<CallDecrypt(Unwrap(d)[2])>>,
          recorded |-> <<Unwrap(d)>>]
    ELSE [ok |-> TRUE,
          lines |-> <<render_incoming(ev.author, ev.content)>>,
          err |-> <<>>,
          inbox |-> inbox,
          calls |-> <<>>,
          recorded |-> <<>>]

\* handle_chat_event: Result<Vec<String>>, with the cache it leaves, the
\* calls it made and the sightings it recorded.  Every path returns Ok.
handle_chat_event(ev, inbox, g) ==
    chat_event_detected(ev, inbox, detect_pgp(ev.content), g)

\* -------------------------------------------------------- session env

\* SessionEnv::default()
SessionEnvDefault == [default_fpr |-> None, channel_id |-> None]

\* A faulty effective channel: the override is ignored.
set_channel_id_static(env) == cfg.channel_id

\* SessionEnv::set_channel_id: the effective channel.
set_channel_id(env) ==
    IF IsSome(env.channel_id) THEN Unwrap(env.channel_id) ELSE cfg.channel_id

\* ------------------------------------------------------ command router

\* What handle_command returns, with the state it leaves behind it (env and
\* pgp_inbox are &mut), the external calls it made and the sightings it
\* recorded.
CmdOk(outcome, lines, ui_events, env, inbox, calls, recorded) ==
    [ok |-> TRUE, outcome |-> outcome, lines |-> lines, ui_events |-> ui_events,
     err |-> <<>>, env |-> env, inbox |-> inbox, calls |-> calls,
     recorded |-> recorded]

CmdErr(err, env, inbox, calls, recorded) ==
    [ok |-> FALSE, outcome |-> "Continue", lines |-> <<>>, ui_events |-> <<>>,
     err |-> err, env |-> env, inbox |-> inbox, calls |-> calls,
     recorded |-> recorded]

\* parts.next() at position i: Some(token) or None.
Arg(parts, i) == IF i <= Len(parts) THEN Some(parts[i]) ELSE None

\* What is left of the iterator from position i on.
Rest(parts, i) == SubSeq(parts, i, Len(parts))

Tok(a) == <<a>>

cmd_export(parts, env, inbox) ==
    LET what == IF IsSome(Arg(parts, 2)) THEN parts[2] ELSE <<>>
    IN  CASE what = Tok("recipient") ->
                LET v == trim(join(Rest(parts, 3), <<" ">>))
                IN  IF v = <<>>
                    THEN CmdErr(<<"Usage: export recipient <fpr|uid>">>, env, inbox, <<>>, <<>>)
                    ELSE CmdOk("Continue",
                               << <<"exported recipient =", " ">> \o v >>, <<>>,
                               [env EXCEPT !.default_fpr = Some(v)], inbox, <<>>, <<>>)
          [] what = Tok("channel") ->
                IF ~IsSome(Arg(parts, 3))
                THEN CmdErr(<<"Usage: export channel <channel_id>">>, env, inbox, <<>>, <<>>)
                ELSE LET ch == parse_int(parts[3])
                     IN  IF ~ch.ok
                         THEN CmdErr(<<"channel_id must be an integer">>, env, inbox, <<>>, <<>>)
                         ELSE CmdOk("Continue",
                                    << <<"exported channel =", " ">> \o to_string(ch.val),
                                       <<"Note: now listening/sending only in this channel.">> >>,
                                    <<>>,
                                    [env EXCEPT !.channel_id = Some(ch.val)], inbox, <<>>, <<>>)
          [] what = Tok("show") ->
                CmdOk("Continue",
                      << <<"Session exports:">>,
                         <<"  ", "channel", " ">> \o to_string(set_channel_id(env)),
                         <<"  ", "recipient", " ">>
                            \o (IF IsSome(env.default_fpr) THEN Unwrap(env.default_fpr)
                                ELSE <<"(not set)">>) >>,
                      <<>>, env, inbox, <<>>, <<>>)
          [] what = Tok("unset") ->
                LET which == IF IsSome(Arg(parts, 3)) THEN parts[3] ELSE <<>>
                IN  CASE which = Tok("recipient") ->
                            CmdOk("Continue", << <<"unset recipient">> >>, <<>>,
                                  [env EXCEPT !.default_fpr = None], inbox, <<>>, <<>>)
                      [] which = Tok("channel") ->
                            CmdOk("Continue",
                                  << <<"unset channel (back to env)", " ">>
                                        \o to_string(cfg.channel_id) >>,
                                  <<>>,
                                  [env EXCEPT !.channel_id = None], inbox, <<>>, <<>>)
                      [] OTHER ->
                            CmdErr(<<"Usage: export unset <fpr|channel>">>, env, inbox, <<>>, <<>>)
          [] OTHER ->
                CmdErr(<<"Usage: export <recipient|channel|show|unset> ...">>,
                       env, inbox, <<>>, <<>>)

cmd_me(env, inbox, g) ==
    IF ~available(g).val
    THEN CmdOk("Continue", <<render_warn(<<"gpg not found.">>)>>, <<>>, env, inbox,
               <<CallGpg("available")>>, <<>>)
    ELSE LET v == version_line(g)
             fprs == list_secret_fingerprints(g)
         IN  IF ~v.ok
             THEN CmdErr(v.err, env, inbox,
                         <<CallGpg("available"), CallGpg("version_line")>>, <<>>)
             ELSE IF ~fprs.ok
             THEN CmdErr(fprs.err, env, inbox,
                         <<CallGpg("available"), CallGpg("version_line"),
                           CallGpg("list_secret_fingerprints")>>, <<>>)
             ELSE CmdOk("Continue",
                        <<v.val>> \o
                        (IF fprs.val = <<>>
                         THEN <<render_warn(<<"No secret keys found in your GPG keyring.">>)>>
                         ELSE << <<"Secret key fingerprints:">> >>
                              \o [i \in 1..Len(fprs.val) |-> <<"  ">> \o fprs.val[i]]),
                        <<>>, env, inbox,
                        <<CallGpg("available"), CallGpg("version_line"),
                          CallGpg("list_secret_fingerprints")>>, <<>>)

\* A faulty send: the message is sent without the check that it is not empty.
cmd_send_unchecked(parts, env, inbox, t) ==
    IF ~send_message(set_channel_id(env), join(Rest(parts, 2), <<" ">>), t).ok
    THEN CmdErr(TransportError, env, inbox,
                <<CallSend(set_channel_id(env), join(Rest(parts, 2), <<" ">>))>>, <<>>)
    ELSE CmdOk("Continue", <<render_outgoing_sent>>, <<>>, env, inbox,
               <<CallSend(set_channel_id(env), join(Rest(parts, 2), <<" ">>))>>, <<>>)

cmd_send(parts, env, inbox, t) ==
    LET msg == join(Rest(parts, 2), <<" ">>)
    IN  IF msg = <<>>
        THEN CmdErr(<<"Usage: send <message...>">>, env, inbox, <<>>, <<>>)
        ELSE LET r == send_message(set_channel_id(env), msg, t)
                 calls == <<CallSend(set_channel_id(env), msg)>>
             IN  IF ~r.ok THEN CmdErr(r.err, env, inbox, calls, <<>>)
                 ELSE CmdOk("Continue", <<render_outgoing_sent>>, <<>>, env, inbox, calls, <<>>)

cmd_keys(env, inbox, g) ==
    LET keys == list_public_keys(g)
        calls == <<CallGpg("list_public_keys")>>
    IN  IF ~keys.ok THEN CmdErr(keys.err, env, inbox, calls, <<>>)
        ELSE CmdOk("Continue",
                   IF keys.val = <<>>
                   THEN <<render_warn(<<"No public keys found in your GPG keyring.">>)>>
                   ELSE << <<"Public keys (recipients):">> >>
                        \o [i \in 1..Len(keys.val) |->
                              IF IsSome(keys.val[i].uid)
                              THEN <<"  ">> \o keys.val[i].fpr \o <<"  ", "-", "  ">>
                                       \o Unwrap(keys.val[i].uid)
                              ELSE <<"  ">> \o keys.val[i].fpr],
                   <<>>, env, inbox, calls, <<>>)

\* for ev in history { out_lines.extend(handle_chat_event(&ev, pgp_inbox)?) }
\* One iteration, h being what handle_chat_event returned: an Err ends the
\* replay (the ? operator).
replay_extend(acc, h) ==
    [ok |-> h.ok,
     lines |-> IF h.ok THEN acc.lines \o h.lines ELSE acc.lines,
     err |-> h.err,
     inbox |-> h.inbox,
     calls |-> acc.calls \o h.calls,
     recorded |-> acc.recorded \o h.recorded]

replay_one(ev, acc, g) == replay_extend(acc, handle_chat_event(ev, acc.inbox, g))

\* A faulty replay: the newest message is handled first.
RECURSIVE replay_newest_first(_, _, _)
replay_newest_first(history, acc, g) ==
    IF history = <<>> \/ ~acc.ok THEN acc
    ELSE IF Len(history) = 1
    THEN [ok |-> handle_chat_event(history[1], acc.inbox, g).ok,
          lines |-> acc.lines \o handle_chat_event(history[1], acc.inbox, g).lines,
          err |-> handle_chat_event(history[1], acc.inbox, g).err,
          inbox |-> handle_chat_event(history[1], acc.inbox, g).inbox,
          calls |-> acc.calls \o handle_chat_event(history[1], acc.inbox, g).calls,
          recorded |-> acc.recorded \o handle_chat_event(history[1], acc.inbox, g).recorded]
    ELSE replay_newest_first(
             SubSeq(history, 1, Len(history) \div 2),
             replay_newest_first(SubSeq(history, (Len(history) \div 2) + 1, Len(history)),
                                 acc, g),
             g)

\* The iterations over history in order, stopping at the first Err.  The
\* sequence is walked by halves, which keeps the evaluation shallow.
RECURSIVE replay(_, _, _)
replay(history, acc, g) ==
    IF history = <<>> \/ ~acc.ok THEN acc
    ELSE IF Len(history) = 1 THEN replay_one(history[1], acc, g)
    ELSE replay(SubSeq(history, (Len(history) \div 2) + 1, Len(history)),
                replay(SubSeq(history, 1, Len(history) \div 2), acc, g),
                g)

\* load, once the replay is done.
load_done(env, done) ==
    IF ~done.ok
    THEN CmdErr(done.err, env, done.inbox, done.calls, done.recorded)
    ELSE CmdOk("Continue", done.lines, <<>>, env, done.inbox, done.calls, done.recorded)

\* load, from the fetched history on.
load_history(env, inbox, n, history, g) ==
    IF ~history.ok
    THEN CmdErr(history.err, env, inbox, <<CallFetch(set_channel_id(env), n)>>, <<>>)
    ELSE IF history.val = <<>>
    THEN CmdOk("Continue", <<render_warn(<<"No messages returned.">>)>>,
               <<>>, env, inbox, <<CallFetch(set_channel_id(env), n)>>, <<>>)
    ELSE load_done(env,
                   replay(history.val,
                          [ok |-> TRUE,
                           lines |-> << <<"Loading", " ">>
                                          \o to_string(Len(history.val))
                                          \o <<"/">> \o to_string(n)
                                          \o <<" ", "messages...">> >>,
                           err |-> <<>>,
                           inbox |-> inbox,
                           calls |-> <<CallFetch(set_channel_id(env), n)>>,
                           recorded |-> <<>>],
                          g))

\* load, from the parsed count on.
load_count(env, inbox, n, g, t) ==
    IF ~n.ok
    THEN CmdErr(<<"load <count> must be a number">>, env, inbox, <<>>, <<>>)
    ELSE load_history(env, inbox, n.val,
                      fetch_messages(set_channel_id(env), n.val, t), g)

cmd_load(parts, env, inbox, g, t) ==
    IF ~IsSome(Arg(parts, 2))
    THEN CmdErr(<<"Usage: load <count>">>, env, inbox, <<>>, <<>>)
    ELSE load_count(env, inbox, parse_int(parts[2]), g, t)

\* A faulty pgp list: the entries listed are taken out of the cache.
cmd_pgp_list_draining(env, inbox) ==
    CmdOk("Continue",
          IF inbox = <<>>
          THEN <<render_warn(<<"No PGP messages captured yet.">>)>>
          ELSE << <<"Captured PGP messages (latest last):">> >>
               \o [i \in 1..Len(inbox) |->
                     <<"  ", "id=", " ">> \o inbox[i][1] \o <<" ", "(">>
                        \o to_string(Len(inbox[i][2])) \o <<" ", "chars)">>],
          <<>>, env, <<>>, <<>>, <<>>)

cmd_pgp_list(env, inbox) ==
    CmdOk("Continue",
          IF inbox = <<>>
          THEN <<render_warn(<<"No PGP messages captured yet.">>)>>
          ELSE << <<"Captured PGP messages (latest last):">> >>
               \o [i \in 1..Len(inbox) |->
                     <<"  ", "id=", " ">> \o inbox[i][1] \o <<" ", "(">>
                        \o to_string(Len(inbox[i][2])) \o <<" ", "chars)">>],
          <<>>, env, inbox, <<>>, <<>>)

\* A variant of decrypt-last that fails on an empty cache.
decrypt_last_failing(env, inbox, last, g) ==
    IF ~IsSome(last)
    THEN CmdErr(<<"No captured PGP message with id=">>, env, inbox, <<>>, <<>>)
    ELSE CmdOk("Continue",
               render_decrypt_attempt(Unwrap(last)[1], Unwrap(last)[2], g),
               <<>>, env, inbox, <<CallDecrypt(Unwrap(last)[2])>>, <<>>)

\* decrypt-last, from pgp_inbox.back() on.
decrypt_last_of(env, inbox, last, g) ==
    IF ~IsSome(last)
    THEN CmdOk("Continue", <<render_warn(<<"No PGP messages captured yet.">>)>>,
               <<>>, env, inbox, <<>>, <<>>)
    ELSE CmdOk("Continue",
               render_decrypt_attempt(Unwrap(last)[1], Unwrap(last)[2], g),
               <<>>, env, inbox, <<CallDecrypt(Unwrap(last)[2])>>, <<>>)

cmd_pgp_decrypt_last(env, inbox, g) == decrypt_last_of(env, inbox, inbox_back(inbox), g)

\* A faulty decrypt <id>: the block found is recorded in the cache again.
decrypt_found_recording(env, inbox, id, found, g) ==
    IF ~IsSome(found)
    THEN CmdErr(<<"No captured PGP message with id=">> \o id, env, inbox, <<>>, <<>>)
    ELSE CmdOk("Continue",
               render_decrypt_attempt(id, Unwrap(found)[2], g),
               <<>>, env, record(inbox, id, Unwrap(found)[2]),
               <<CallDecrypt(Unwrap(found)[2])>>, <<>>)

\* decrypt <id>, from the lookup on.
decrypt_found(env, inbox, id, found, g) ==
    IF ~IsSome(found)
    THEN CmdErr(<<"No captured PGP message with id=">> \o id, env, inbox, <<>>, <<>>)
    ELSE CmdOk("Continue",
               render_decrypt_attempt(id, Unwrap(found)[2], g),
               <<>>, env, inbox, <<CallDecrypt(Unwrap(found)[2])>>, <<>>)

cmd_pgp_decrypt(parts, env, inbox, g) ==
    IF ~IsSome(Arg(parts, 3))
    THEN CmdErr(<<"Usage: pgp decrypt <id>">>, env, inbox, <<>>, <<>>)
    ELSE decrypt_found(env, inbox, parts[3], inbox_find(inbox, parts[3]), g)

\* The recipient of pgp send: the explicit one, else the session's.
\* A faulty choice of recipient: the session recipient first.
pgp_send_recipient_session_first(recipient, env) ==
    IF IsSome(env.default_fpr) THEN env.default_fpr ELSE recipient

pgp_send_recipient(recipient, env) ==
    IF IsSome(recipient) THEN recipient ELSE env.default_fpr

UsagePgpSend == <<"Usage: pgp send <message...> OR pgp send -r <fpr|uid> <message...>">>
UsagePgpSendR == <<"Usage: pgp send -r <fpr|uid> <message...>">>
NoRecipient == <<"No exported recipient set. Use: export recipient <fpr|uid>">>

\* pgp send, once encrypted: the transport send and the confirmation.
\* A faulty pgp send: a failed transport send is not surfaced.
pgp_send_armored_optimistic(env, inbox, recipient, msg, armored, t) ==
    IF ~armored.ok
    THEN CmdErr(armored.err, env, inbox, <<CallEncrypt(recipient, msg)>>, <<>>)
    ELSE CmdOk("Continue",
               << <<"-> sent encrypted PGP message", " ", "to", " ">> \o recipient >>,
               <<>>, env, inbox,
               <<CallEncrypt(recipient, msg), CallSend(set_channel_id(env), armored.val)>>,
               <<>>)

\* A faulty pgp send: the recipient used becomes the session recipient.
pgp_send_armored_remembering(env, inbox, recipient, msg, armored, t) ==
    IF ~armored.ok
    THEN CmdErr(armored.err, env, inbox, <<CallEncrypt(recipient, msg)>>, <<>>)
    ELSE IF ~send_message(set_channel_id(env), armored.val, t).ok
    THEN CmdErr(send_message(set_channel_id(env), armored.val, t).err, env, inbox,
                <<CallEncrypt(recipient, msg), CallSend(set_channel_id(env), armored.val)>>,
                <<>>)
    ELSE CmdOk("Continue",
               << <<"-> sent encrypted PGP message", " ", "to", " ">> \o recipient >>,
               <<>>, [env EXCEPT !.default_fpr = Some(recipient)], inbox,
               <<CallEncrypt(recipient, msg), CallSend(set_channel_id(env), armored.val)>>,
               <<>>)

pgp_send_armored(env, inbox, recipient, msg, armored, t) ==
    IF ~armored.ok
    THEN CmdErr(armored.err, env, inbox, <<CallEncrypt(recipient, msg)>>, <<>>)
    ELSE IF ~send_message(set_channel_id(env), armored.val, t).ok
    THEN CmdErr(send_message(set_channel_id(env), armored.val, t).err, env, inbox,
                <<CallEncrypt(recipient, msg), CallSend(set_channel_id(env), armored.val)>>,
                <<>>)
    ELSE CmdOk("Continue",
               << <<"-> sent encrypted PGP message", " ", "to", " ">> \o recipient >>,
               <<>>, env, inbox,
               <<CallEncrypt(recipient, msg), CallSend(set_channel_id(env), armored.val)>>,
               <<>>)

\* A faulty pgp send: with no recipient it encrypts to the empty recipient.
pgp_send_to_unchecked(env, inbox, chosen, msg_parts, g, t) ==
    pgp_send_armored(env, inbox,
                     IF IsSome(chosen) THEN Unwrap(chosen) ELSE <<>>,
                     join(msg_parts, <<" ">>),
                     encrypt_to_recipient(IF IsSome(chosen) THEN Unwrap(chosen) ELSE <<>>,
                                          join(msg_parts, <<" ">>), g),
                     t)

\* pgp send, from the chosen recipient and the message parts on.
pgp_send_to(env, inbox, chosen, msg_parts, g, t) ==
    IF ~IsSome(chosen)
    THEN CmdErr(NoRecipient, env, inbox, <<>>, <<>>)
    ELSE pgp_send_armored(env, inbox, Unwrap(chosen), join(msg_parts, <<" ">>),
                          encrypt_to_recipient(Unwrap(chosen), join(msg_parts, <<" ">>), g),
                          t)

cmd_pgp_send(parts, env, inbox, g, t) ==
    IF ~IsSome(Arg(parts, 3))
    THEN CmdErr(UsagePgpSend, env, inbox, <<>>, <<>>)
    ELSE IF parts[3] = Tok("-r")
    THEN IF ~IsSome(Arg(parts, 4)) \/ Rest(parts, 5) = <<>>
         THEN CmdErr(UsagePgpSendR, env, inbox, <<>>, <<>>)
         ELSE pgp_send_to(env, inbox, pgp_send_recipient(Some(parts[4]), env),
                          Rest(parts, 5), g, t)
    ELSE pgp_send_to(env, inbox, pgp_send_recipient(None, env), Rest(parts, 3), g, t)

cmd_pgp(parts, env, inbox, g, t) ==
    LET sub == IF IsSome(Arg(parts, 2)) THEN parts[2] ELSE <<>>
    IN  CASE sub = Tok("list") -> cmd_pgp_list(env, inbox)
          [] sub = Tok("decrypt-last") -> cmd_pgp_decrypt_last(env, inbox, g)
          [] sub = Tok("decrypt") -> cmd_pgp_decrypt(parts, env, inbox, g)
          [] sub = Tok("send") -> cmd_pgp_send(parts, env, inbox, g, t)
          [] OTHER -> CmdErr(<<"Usage: pgp <list|send|decrypt <id>|decrypt-last>">>,
                             env, inbox, <<>>, <<>>)

\* handle_command, from the split line on.
route(parts, env, inbox, g, t) ==
    IF parts = <<>> THEN CmdErr(<<"empty command">>, env, inbox, <<>>, <<>>)
    ELSE CASE parts[1] = Tok("export") -> cmd_export(parts, env, inbox)
           [] parts[1] = Tok("clear") ->
                 CmdOk("Continue", <<>>, <<[type |-> "Clear"]>>, env, inbox, <<>>, <<>>)
           [] parts[1] \in {Tok("help"), Tok("h"), Tok("?")} ->
                 CmdOk("Continue", <<render_help>>, <<>>, env, inbox, <<>>, <<>>)
           [] parts[1] = Tok("me") -> cmd_me(env, inbox, g)
           [] parts[1] \in {Tok("send"), Tok("s")} -> cmd_send(parts, env, inbox, t)
           [] parts[1] = Tok("keys") -> cmd_keys(env, inbox, g)
           [] parts[1] = Tok("load") -> cmd_load(parts, env, inbox, g, t)
           [] parts[1] = Tok("pgp") -> cmd_pgp(parts, env, inbox, g, t)
           [] parts[1] \in {Tok("quit"), Tok("exit"), Tok("q")} ->
                 CmdOk("Quit", <<>>, <<>>, env, inbox, <<>>, <<>>)
           [] OTHER ->
                 CmdErr(<<"Unknown command: ">> \o parts[1] \o <<" (try: help)">>,
                        env, inbox, <<>>, <<>>)

\* A faulty router: quit, exit and q yield Continue.
handle_command_never_quits(line, env, inbox, g, t) ==
    [route(split_whitespace(line), env, inbox, g, t) EXCEPT !.outcome = "Continue"]

\* handle_command(line, cfg, env, pgp_inbox) with gpg behaving as g and the
\* chat service as t while it runs.
handle_command(line, env, inbox, g, t) == route(split_whitespace(line), env, inbox, g, t)

\* ------------------------------------------------------------- inputs

\* The outside world during one step of the loop: how gpg and the chat
\* service answer.
Worlds ==
    {[gpg |-> g, net |-> "ok"] : g \in GpgRuns} \cup {[gpg |-> "ok", net |-> "err"]}

LiveBlockA == <<"hQEMA", "=", "1">>
LiveBlockB == <<"wcBMA", "=", "2">>

LiveContents ==
    { <<"hello", " ", "world">>,
      <<"fyi", " ">> \o BlockText(LiveBlockA) \o <<"\n", "bye">>,
      <<" ">> \o BlockText(LiveBlockB) \o <<" ", "\n">>,
      BEGIN \o <<"\n", "hQEMA">> }

\* The events the gateway task can deliver.
ChatEvents ==
    {[channel_id |-> c, author |-> <<"alice">>, content |-> x] :
        c \in {cfg.channel_id, OtherChannel}, x \in LiveContents}

IdA == pgp_block_id(BlockText(LiveBlockA))
IdArchived == pgp_block_id(BlockText(<<"hQEMA">> \o to_string(ArchiveLen)))

\* Counts a user loads with: few messages, more than the cache holds, and
\* as many as bring one block fewer than the cache holds.
LoadFew == 2
LoadMany == 60
LoadMost == 53

\* The lines a user types (trimmed and not empty, as the input thread
\* forwards them).
CommandLines ==
    { <<"help">>, <<"?">>, <<"me">>, <<"keys">>, <<"clear">>,
      <<"quit">>, <<"exit">>, <<"q">>, <<"frob">>,
      <<"send", " ", "hello", " ", " ", "world">>, <<"send">>, <<"s", " ", "hi">>,
      <<"load">>, <<"load", " ", "x">>, <<"load", " ", "-", "1">>,
      <<"load", " ", "0">>,
      <<"load", " ">> \o to_string(LoadFew),
      <<"load", " ">> \o to_string(LoadMany),
      <<"export">>, <<"export", " ", "bogus">>, <<"export", " ", "show">>,
      <<"export", " ", "recipient">>,
      <<"export", " ", "recipient", " ", "alice">>,
      <<"export", " ", "recipient", " ", "bob", "\t", "smith">>,
      <<"export", " ", "channel">>, <<"export", " ", "channel", " ", "abc">>,
      <<"export", " ", "channel", " ">> \o to_string(OtherChannel),
      <<"export", " ", "unset">>, <<"export", " ", "unset", " ", "foo">>,
      <<"export", " ", "unset", " ", "recipient">>,
      <<"export", " ", "unset", " ", "channel">>,
      <<"pgp">>, <<"pgp", " ", "bogus">>, <<"pgp", " ", "list">>,
      <<"pgp", " ", "decrypt-last">>,
      <<"pgp", " ", "decrypt">>,
      <<"pgp", " ", "decrypt", " ", "unknown-id">>,
      <<"pgp", " ", "decrypt", " ">> \o IdA,
      <<"pgp", " ", "decrypt", " ">> \o IdArchived,
      <<"pgp", " ", "send">>, <<"pgp", " ", "send", " ", "-r">>,
      <<"pgp", " ", "send", " ", "-r", " ", "alice">>,
      <<"pgp", " ", "send", " ", "-r", " ", "alice", " ", "secret", " ", " ", "text">>,
      <<"pgp", " ", "send", " ", "hi", " ", "-r", " ", "bob">> }

\* -------------------------------------------------------------- state

VARIABLES
    env,          \* SessionEnv: the session overrides
    pgp_inbox,    \* VecDeque<(String, String)>: the inbox cache
    state,        \* "Running" while main's loop runs, "Terminating" after it,
                  \* "Exited" once main has returned
    step,         \* the iteration of the loop under way: what it took, what
                  \* the loop held before it, what it did, and how gpg and
                  \* the chat service behaved if it called them
    sightings,    \* every sighting recorded since the start, in order
    budget,       \* what the environment may still deliver
    rx,           \* the events the gateway task sent and the loop has not taken
    cmd_rx,       \* the lines the input thread sent and the loop has not taken
    ui,           \* the UiEvents sent and not yet printed
    threads,      \* where the input thread, the gateway task and the printer are
    probe,        \* the argument a function of the crypto crate is called with,
                  \* when the function is run by itself
    answer        \* what the function returned, once it has

vars == <<env, pgp_inbox, state, step, sightings, budget, rx, cmd_rx, ui, threads,
         probe, answer>>

\* The environment delivers at most MaxLive live sightings and the user
\* runs at most MaxLoads replays that return messages; with the threads
\* modelled, the user types at most MaxTyped lines and the gateway
\* delivers at most MaxDelivered events.
MaxLive == 1
MaxLoads == 1
MaxTyped == 1
MaxDelivered == 1

\* No function is being run by itself.
NoProbe == [fn |-> "none", arg |-> <<>>]

\* The loop waiting in select!, no branch taken yet.
NoStep ==
    [kind |-> "select", input |-> <<>>, accepted |-> FALSE, ok |-> TRUE,
     outcome |-> "Continue", err |-> <<>>, sent |-> <<>>, calls |-> <<>>,
     before |-> [env |-> SessionEnvDefault, inbox |-> <<>>], world |-> None]

\* main up to the loop, with the channels empty.
Init ==
    /\ env = SessionEnvDefault
    /\ pgp_inbox = <<>>
    /\ state = "Running"
    /\ step = NoStep
    /\ sightings = <<>>
    /\ budget = [live |-> MaxLive, loads |-> MaxLoads, typed |-> 0, delivered |-> 0]
    /\ rx = <<>>
    /\ cmd_rx = <<>>
    /\ ui = <<>>
    /\ threads = [input |-> "reading", gateway |-> "open", printer |-> "running"]
    /\ probe = NoProbe
    /\ answer = None

UiLine(s) == [type |-> "Line", s |-> s]

UiLines(lines) == [i \in 1..Len(lines) |-> UiLine(lines[i])]

\* A faulty first branch: the end of the event stream breaks the loop.
chat_skip_breaking(maybe) ==
    /\ step' = [kind |-> "chat", input |-> maybe, accepted |-> FALSE,
                ok |-> TRUE, outcome |-> "Continue", err |-> <<>>,
                sent |-> <<>>, calls |-> <<>>,
                before |-> [env |-> env, inbox |-> pgp_inbox], world |-> None]
    /\ state' = IF IsSome(maybe) THEN state ELSE "Terminating"
    /\ UNCHANGED <<env, pgp_inbox, sightings, budget>>

\* The first branch with nothing to handle: rx.recv() returned None, or an
\* event of another channel.  The loop goes round.
\* A faulty skip: the event of another channel is shown.
chat_skip_shown(maybe) ==
    /\ step' = [kind |-> "chat", input |-> maybe, accepted |-> FALSE,
                ok |-> TRUE, outcome |-> "Continue", err |-> <<>>,
                sent |-> IF IsSome(maybe)
                         THEN <<UiLine(render_incoming(Unwrap(maybe).author,
                                                       Unwrap(maybe).content))>>
                         ELSE <<>>,
                calls |-> <<>>,
                before |-> [env |-> env, inbox |-> pgp_inbox], world |-> None]
    /\ UNCHANGED <<env, pgp_inbox, state, sightings, budget>>

chat_skip(maybe) ==
    /\ step' = [kind |-> "chat", input |-> maybe, accepted |-> FALSE,
                ok |-> TRUE, outcome |-> "Continue", err |-> <<>>,
                sent |-> <<>>, calls |-> <<>>,
                before |-> [env |-> env, inbox |-> pgp_inbox], world |-> None]
    /\ UNCHANGED <<env, pgp_inbox, state, sightings, budget>>

\* main, the first branch of select! with an event of the effective
\* channel: h is what handle_chat_event returned.  An Err of
\* handle_chat_event would return from main (the ? operator).
ChatHandled(maybe, w, h) ==
    /\ pgp_inbox' = h.inbox
    /\ sightings' = sightings \o h.recorded
    /\ state' = IF h.ok THEN "Running" ELSE "Terminating"
    /\ step' = [kind |-> "chat", input |-> maybe, accepted |-> TRUE,
                ok |-> h.ok, outcome |-> "Continue", err |-> h.err,
                sent |-> IF h.ok THEN UiLines(h.lines) ELSE <<>>,
                calls |-> h.calls,
                before |-> [env |-> env, inbox |-> pgp_inbox],
                world |-> IF h.calls = <<>> THEN None ELSE Some(w)]
    /\ budget' = [budget EXCEPT !.live = @ - Len(h.recorded)]
    /\ UNCHANGED env

\* main, the first branch of select!: maybe = rx.recv().
ChatBranch(maybe, w) ==
    IF IsSome(maybe) /\ Unwrap(maybe).channel_id = set_channel_id(env)
    THEN \E h \in {handle_chat_event(Unwrap(maybe), pgp_inbox, w.gpg)} :
             ChatHandled(maybe, w, h)
    ELSE chat_skip(maybe)

\* A faulty second branch: an error of the router is not rendered.
cmd_sent_errors_dropped(r) ==
    IF r.ok
    THEN UiLines(r.lines) \o r.ui_events
         \o (IF r.outcome = "Quit" THEN <<[type |-> "Exit"]>> ELSE <<>>)
    ELSE <<>>

\* What the second branch sends to ui_tx for the result r of handle_command.
cmd_sent(r) ==
    IF r.ok
    THEN UiLines(r.lines) \o r.ui_events
         \o (IF r.outcome = "Quit" THEN <<[type |-> "Exit"]>> ELSE <<>>)
    ELSE <<UiLine(render_error(r.err))>>

\* main, the second branch of select!: maybe = cmd_rx.recv().
CmdBranch(maybe, w) ==
    IF ~IsSome(maybe)
    THEN /\ state' = "Terminating"
         /\ step' = [kind |-> "cmd", input |-> maybe, accepted |-> FALSE,
                     ok |-> TRUE, outcome |-> "Closed", err |-> <<>>,
                     sent |-> <<>>, calls |-> <<>>,
                     before |-> [env |-> env, inbox |-> pgp_inbox], world |-> None]
         /\ UNCHANGED <<env, pgp_inbox, sightings, budget>>
    ELSE \E r \in {handle_command(Unwrap(maybe), env, pgp_inbox, w.gpg, w.net)} :
             /\ env' = r.env
             /\ pgp_inbox' = r.inbox
             /\ sightings' = sightings \o r.recorded
             /\ budget' = [budget EXCEPT
                              !.loads = IF r.recorded # <<>> THEN @ - 1 ELSE @]
             /\ state' = IF r.ok /\ r.outcome = "Quit" THEN "Terminating" ELSE "Running"
             /\ step' = [kind |-> "cmd", input |-> maybe, accepted |-> TRUE,
                         ok |-> r.ok, outcome |-> r.outcome, err |-> r.err,
                         sent |-> cmd_sent(r), calls |-> r.calls,
                         before |-> [env |-> env, inbox |-> pgp_inbox],
                         world |-> IF r.calls = <<>> THEN None ELSE Some(w)]

IsLoad(line) == LET parts == split_whitespace(line) IN parts # <<>> /\ parts[1] = Tok("load")

\* The commands whose handlers run gpg or call the chat service.
CallsOut(line) ==
    LET parts == split_whitespace(line)
    IN  parts # <<>> /\ parts[1] \in {Tok("me"), Tok("keys"), Tok("send"), Tok("s"),
                                      Tok("load"), Tok("pgp")}

\* The behaviours of gpg and of the chat service that can tell on a line:
\* all of them for a command that calls out, one for any other, whose
\* handler never meets them.
WorldsOf(line) ==
    IF CallsOut(line) THEN Worlds ELSE {[gpg |-> "ok", net |-> "ok"]}

\* A chat event arrives and the loop takes it.
ChatStep ==
    /\ state = "Running"
    /\ step.kind = "select"
    /\ budget.live > 0
    /\ \E ev \in ChatEvents, w \in Worlds : ChatBranch(Some(ev), w)
    /\ UNCHANGED <<rx, cmd_rx, ui, threads, probe, answer>>

\* A command line, one of lines, arrives and the loop takes it.
CmdStepOf(lines) ==
    /\ state = "Running"
    /\ step.kind = "select"
    /\ \E line \in lines :
          /\ IsLoad(line) => budget.loads > 0
          /\ \E w \in WorldsOf(line) : CmdBranch(Some(line), w)
    /\ UNCHANGED <<rx, cmd_rx, ui, threads, probe, answer>>

CmdStep == CmdStepOf(CommandLines)

\* The branch is done and the loop goes round to select! again.
Continue ==
    /\ state = "Running"
    /\ step.kind # "select"
    /\ step' = NoStep
    /\ UNCHANGED <<env, pgp_inbox, state, sightings, budget, rx, cmd_rx, ui, threads, probe, answer>>

Next == ChatStep \/ CmdStep \/ Continue

\* The loop alone: it takes, one at a time, any event and any line.
Spec == Init /\ [][Next]_vars

\* ------------------------------------------------------- re-sightings

\* The same block is sighted more than once: the gateway delivers up to
\* MaxResight events with a block, and the user loads, lists and decrypts.
MaxResight == 2

ResightLines ==
    { <<"load", " ">> \o to_string(LoadFew),
      <<"load", " ">> \o to_string(LoadMost),
      <<"load", " ">> \o to_string(LoadMany),
      <<"pgp", " ", "list">>,
      <<"pgp", " ", "decrypt-last">>,
      <<"pgp", " ", "decrypt", " ">> \o IdA }

InitResight ==
    /\ env = SessionEnvDefault
    /\ pgp_inbox = <<>>
    /\ state = "Running"
    /\ step = NoStep
    /\ sightings = <<>>
    /\ budget = [live |-> MaxResight, loads |-> MaxLoads, typed |-> 0, delivered |-> 0]
    /\ rx = <<>>
    /\ cmd_rx = <<>>
    /\ ui = <<>>
    /\ threads = [input |-> "reading", gateway |-> "open", printer |-> "running"]
    /\ probe = NoProbe
    /\ answer = None

CmdStepResight == CmdStepOf(ResightLines)

NextResight == ChatStep \/ CmdStepResight \/ Continue

SpecResight == InitResight /\ [][NextResight]_vars

\* ------------------------------------------------- the loop and its threads

\* What the user types, as readline returns it.
TypedLines ==
    { <<" ", "help", " ">>, <<"\t", " ">>, <<"frob">>, <<"send">>, <<"quit">>,
      <<"s", " ", "hi">>, <<"quit", " ", "now">>,
      <<"export", " ", "channel", " ">> \o to_string(OtherChannel) }

\* What the gateway delivers.
DeliveredEvents ==
    {[channel_id |-> c, author |-> <<"alice">>, content |-> x] :
        c \in {cfg.channel_id, OtherChannel},
        x \in { <<"hello", " ", "world">>, BlockText(LiveBlockA) }}

InitLoop ==
    /\ env = SessionEnvDefault
    /\ pgp_inbox = <<>>
    /\ state = "Running"
    /\ step = NoStep
    /\ sightings = <<>>
    /\ budget = [live |-> MaxDelivered, loads |-> MaxLoads,
                 typed |-> MaxTyped, delivered |-> MaxDelivered]
    /\ rx = <<>>
    /\ cmd_rx = <<>>
    /\ ui = <<>>
    /\ threads = [input |-> "starting", gateway |-> "open", printer |-> "starting"]
    /\ probe = NoProbe
    /\ answer = None

\* ui_tx.send(..): the events join the queue, which exists from
\* spawn_cli_thread on; with the receiver dropped the send fails and the
\* loop ignores it (let _ =).
ui_send(events) == IF threads.printer # "stopped" THEN ui \o events ELSE ui

\* A faulty send to the printer: the channel holds no more than one
\* UiEvent and the loop waits for room in it before it takes an event.
LoopTakesEventWithRoom ==
    /\ state = "Running"
    /\ step.kind = "select"
    /\ rx # <<>>
    /\ ui = <<>> /\ threads.printer = "running"
    /\ rx' = Tail(rx)
    /\ UNCHANGED <<cmd_rx, threads, probe, answer>>

\* A faulty receive: the newest event in the queue is taken first.
LoopChatNewest ==
    /\ state = "Running"
    /\ step.kind = "select"
    /\ rx # <<>>
    /\ rx' = SubSeq(rx, 1, Len(rx) - 1)
    /\ \E w \in Worlds : ChatBranch(Some(rx[Len(rx)]), w)
    /\ ui' = ui_send(step'.sent)
    /\ UNCHANGED <<cmd_rx, threads, probe, answer>>

\* rx.recv() in select!: the loop, at the top of an iteration, takes the
\* event at the head of the queue.
LoopTakesEvent ==
    /\ state = "Running"
    /\ step.kind = "select"
    /\ rx # <<>>
    /\ rx' = Tail(rx)
    /\ UNCHANGED <<cmd_rx, threads, probe, answer>>

\* select! takes the first branch, rx.recv() having an event.
LoopChat ==
    /\ LoopTakesEvent
    /\ \E w \in Worlds : ChatBranch(Some(Head(rx)), w)
    /\ ui' = ui_send(step'.sent)

\* select! takes the first branch, rx.recv() returning None: the gateway
\* task is gone and its queue is empty.
LoopChatEnded ==
    /\ state = "Running"
    /\ step.kind = "select"
    /\ rx = <<>>
    /\ threads.gateway = "ended"
    /\ \E w \in Worlds : ChatBranch(None, w)
    /\ UNCHANGED <<rx, cmd_rx, ui, threads, probe, answer>>

\* A faulty filter: it is applied when a command is taken, to the events
\* queued by then, with the channel in force before the command.
LoopCmdSifting ==
    /\ state = "Running"
    /\ step.kind = "select"
    /\ cmd_rx # <<>>
    /\ cmd_rx' = Tail(cmd_rx)
    /\ \E w \in Worlds : CmdBranch(Some(Head(cmd_rx)), w)
    /\ ui' = ui_send(step'.sent)
    /\ rx' = SelectSeq(rx, LAMBDA e : e.channel_id = set_channel_id(env))
    /\ UNCHANGED <<threads, probe, answer>>

\* A faulty loop: a line is taken while the iteration before it is still
\* under way.
LoopCmdEager ==
    /\ state = "Running"
    /\ cmd_rx # <<>>
    /\ cmd_rx' = Tail(cmd_rx)
    /\ \E w \in Worlds : CmdBranch(Some(Head(cmd_rx)), w)
    /\ ui' = ui_send(step'.sent)
    /\ UNCHANGED <<rx, threads, probe, answer>>

\* A faulty selection: the first branch wins whenever it is ready (a
\* biased select!), so the second is taken only with the event queue empty
\* and the stream still open.
LoopCmdBiased ==
    /\ state = "Running"
    /\ step.kind = "select"
    /\ cmd_rx # <<>>
    /\ rx = <<>> /\ threads.gateway = "open"
    /\ cmd_rx' = Tail(cmd_rx)
    /\ \E w \in Worlds : CmdBranch(Some(Head(cmd_rx)), w)
    /\ ui' = ui_send(step'.sent)
    /\ UNCHANGED <<rx, threads, probe, answer>>

\* select! takes the second branch, cmd_rx.recv() having a line.
LoopCmd ==
    /\ state = "Running"
    /\ step.kind = "select"
    /\ cmd_rx # <<>>
    /\ cmd_rx' = Tail(cmd_rx)
    /\ \E w \in Worlds : CmdBranch(Some(Head(cmd_rx)), w)
    /\ ui' = ui_send(step'.sent)
    /\ UNCHANGED <<rx, threads, probe, answer>>

\* select! takes the second branch, cmd_rx.recv() returning None: the input
\* thread is gone and its queue is empty.
LoopCmdClosed ==
    /\ state = "Running"
    /\ step.kind = "select"
    /\ cmd_rx = <<>>
    /\ threads.input = "stopped"
    /\ \E w \in Worlds : CmdBranch(None, w)
    /\ UNCHANGED <<rx, cmd_rx, ui, threads, probe, answer>>

\* main returns Ok(()) after the loop.
MainReturns ==
    /\ state = "Terminating"
    /\ state' = "Exited"
    /\ UNCHANGED <<env, pgp_inbox, step, sightings, budget, rx, cmd_rx, ui, threads, probe, answer>>

\* The input thread sets up its editor and spawns the printer thread, or
\* panics setting up the editor (expect): the printer is then never
\* spawned and both ends the thread holds, cmd_tx and ui_rx, are dropped.
InputStarts ==
    /\ state # "Exited"
    /\ threads.input = "starting"
    /\ \E up \in BOOLEAN :
          IF up
          THEN /\ threads' = [threads EXCEPT !.input = "reading", !.printer = "running"]
               /\ ui' = ui
          ELSE /\ threads' = [threads EXCEPT !.input = "stopped", !.printer = "stopped"]
               /\ ui' = <<>>
    /\ UNCHANGED <<env, pgp_inbox, state, step, sightings, budget, rx, cmd_rx, probe, answer>>

\* A faulty input thread: it goes on reading after it has sent a quit.
input_line_reading_on(raw) ==
    IF trim(raw) = <<>>
    THEN UNCHANGED <<cmd_rx, threads>>
    ELSE /\ cmd_rx' = Append(cmd_rx, trim(raw))
         /\ threads' = [threads EXCEPT !.input = "reading"]

\* The input thread, one turn of its loop with readline returning Ok(raw).
input_line(raw) ==
    IF trim(raw) = <<>>
    THEN UNCHANGED <<cmd_rx, threads>>
    ELSE /\ cmd_rx' = Append(cmd_rx, trim(raw))
         /\ threads' = [threads EXCEPT
                           !.input = IF trim(raw) \in {<<"quit">>, <<"exit">>, <<"q">>}
                                     THEN "stopped" ELSE "reading"]

InputReads ==
    /\ state # "Exited"
    /\ threads.input = "reading"
    /\ budget.typed > 0
    /\ \E raw \in TypedLines : input_line(raw)
    /\ budget' = [budget EXCEPT !.typed = @ - 1]
    /\ UNCHANGED <<env, pgp_inbox, state, step, sightings, rx, ui, probe, answer>>

\* readline returns Interrupted, Eof or another error: quit is sent.
InputEnds ==
    /\ state # "Exited"
    /\ threads.input = "reading"
    /\ cmd_rx' = Append(cmd_rx, <<"quit">>)
    /\ threads' = [threads EXCEPT !.input = "stopped"]
    /\ UNCHANGED <<env, pgp_inbox, state, step, sightings, budget, rx, ui, probe, answer>>

\* The gateway task forwards a MessageCreate.
GatewayDelivers ==
    /\ state # "Exited"
    /\ threads.gateway = "open"
    /\ budget.delivered > 0
    /\ \E ev \in DeliveredEvents : rx' = Append(rx, ev)
    /\ budget' = [budget EXCEPT !.delivered = @ - 1]
    /\ UNCHANGED <<env, pgp_inbox, state, step, sightings, cmd_rx, ui, threads, probe, answer>>

\* The gateway's event stream ends and the task with it.
GatewayEnds ==
    /\ state # "Exited"
    /\ threads.gateway = "open"
    /\ threads' = [threads EXCEPT !.gateway = "ended"]
    /\ UNCHANGED <<env, pgp_inbox, state, step, sightings, budget, rx, cmd_rx, ui, probe, answer>>

\* The printer thread takes one UiEvent and prints it; Exit ends it.
PrinterPrints ==
    /\ state # "Exited"
    /\ threads.printer = "running"
    /\ ui # <<>>
    /\ ui' = Tail(ui)
    /\ threads' = [threads EXCEPT
                      !.printer = IF Head(ui).type = "Exit" THEN "stopped" ELSE "running"]
    /\ UNCHANGED <<env, pgp_inbox, state, step, sightings, budget, rx, cmd_rx, probe, answer>>

NextLoop ==
    \/ LoopChat \/ LoopChatEnded \/ LoopCmd \/ LoopCmdClosed \/ Continue \/ MainReturns
    \/ InputStarts \/ InputReads \/ InputEnds
    \/ GatewayDelivers \/ GatewayEnds \/ PrinterPrints

\* The loop with the input thread, the gateway task and the printer.
SpecLoop == InitLoop /\ [][NextLoop]_vars

\* The gateway delivers a burst of events, so that several wait in the
\* queue at once.
MaxBurst == 2

InitLoopBurst ==
    /\ env = SessionEnvDefault
    /\ pgp_inbox = <<>>
    /\ state = "Running"
    /\ step = NoStep
    /\ sightings = <<>>
    /\ budget = [live |-> MaxBurst, loads |-> MaxLoads,
                 typed |-> MaxTyped, delivered |-> MaxBurst]
    /\ rx = <<>>
    /\ cmd_rx = <<>>
    /\ ui = <<>>
    /\ threads = [input |-> "starting", gateway |-> "open", printer |-> "starting"]
    /\ probe = NoProbe
    /\ answer = None

SpecLoopBurst == InitLoopBurst /\ [][NextLoop]_vars

\* The loop under the scheduling the runtime gives it: main goes on from
\* one iteration to the next, and select! polls its branches in a random
\* order at each iteration, so a branch that is ready again and again is
\* taken in the end.
SpecLoopFair ==
    /\ InitLoop
    /\ [][NextLoop]_vars
    /\ WF_vars(Continue)
    /\ SF_vars(LoopCmd)

\* ------------------------------------- the crypto crate's pure functions

\* The concatenations of at most n of the parts.
RECURSIVE Concats(_, _)
Concats(parts, n) ==
    IF n = 0 THEN {<<>>}
    ELSE Concats(parts, n - 1) \cup {s \o q : s \in Concats(parts, n - 1), q \in parts}

MaxDiagParts == 3
MaxTextParts == 4

\* What gpg may write to stderr: the phrases classify_decrypt_failure looks
\* for, in several cases, pieces of them, and other text.
DiagnosticParts ==
    { <<"gpg:", " ">>,
      <<"decryption", " ", "failed:", " ">>,
      <<"No", " ", "Secret", " ", "Key">>,
      <<"NO", " ", "secret">>,
      <<" ", "Key">>,
      <<"secret", " ", "key", " ", "not", " ", "available">>,
      <<"Bad", " ", "Armor">>,
      <<"CRC", " ", "error">>,
      <<"no", " ", "valid", " ", "OpenPGP", " ", "data", " ", "found">>,
      <<"invalid", " ", "packet">>,
      <<"\n">> }

Diagnostics == Concats(DiagnosticParts, MaxDiagParts)

\* What a message may hold: the markers, an end marker that shares its
\* leading dashes with what precedes it, payload and whitespace.
TextParts ==
    { BEGIN, END, Tail(END), <<"hQEMA">>, <<" ">>, <<"\n">> }

Texts == Concats(TextParts, MaxTextParts)

InitPure ==
    /\ env = SessionEnvDefault
    /\ pgp_inbox = <<>>
    /\ state = "Running"
    /\ step = NoStep
    /\ sightings = <<>>
    /\ budget = [live |-> 0, loads |-> 0, typed |-> 0, delivered |-> 0]
    /\ rx = <<>>
    /\ cmd_rx = <<>>
    /\ ui = <<>>
    /\ threads = [input |-> "stopped", gateway |-> "ended", printer |-> "stopped"]
    /\ probe \in {[fn |-> "classify_decrypt_failure", arg |-> d] : d \in Diagnostics}
                    \cup {[fn |-> "detect_pgp", arg |-> t] : t \in Texts}
    /\ answer = None

\* classify_decrypt_failure(stderr)
ClassifyDecryptFailure ==
    /\ probe.fn = "classify_decrypt_failure"
    /\ answer = None
    /\ answer' = Some(classify_decrypt_failure(probe.arg))
    /\ UNCHANGED <<env, pgp_inbox, state, step, sightings, budget, rx, cmd_rx, ui,
                   threads, probe>>

\* detect_pgp(input)
DetectPgp ==
    /\ probe.fn = "detect_pgp"
    /\ answer = None
    /\ answer' = Some(detect_pgp(probe.arg))
    /\ UNCHANGED <<env, pgp_inbox, state, step, sightings, budget, rx, cmd_rx, ui,
                   threads, probe>>

NextPure == ClassifyDecryptFailure \/ DetectPgp

SpecPure == InitPure /\ [][NextPure]_vars

\* ---------------------------------------------------- the dispatch loop

C4_ErrorRenderedLoopGoesOn ==
    [][(step.kind = "select" /\ step'.kind = "cmd" /\ step'.accepted /\ ~step'.ok)
          => /\ ui' = ui \o <<UiLine(render_error(step'.err))>>
             /\ state' = "Running"
             /\ cmd_rx' = Tail(cmd_rx)
             /\ rx' = rx]_vars

\* An item has been processed with success while the error line of an
\* earlier command is still queued for the printer.
C4_Witness ==
    /\ state = "Running"
    /\ step.kind \in {"chat", "cmd"}
    /\ step.accepted /\ step.ok
    /\ \E i \in 1..Len(ui) : ui[i].type = "Line" /\ ui[i].s[1] = "!"

\* ------------------------------------------------------- the inbox cache

\* C1: in every reachable state, whatever live events and commands (load
\* replays of more events than the cache holds included) came before, the
\* inbox cache holds at most InboxCap = 50 sightings.
C1_CacheBounded == Len(pgp_inbox) <= InboxCap

\* The cache is full and sightings have been evicted from it.
C1_Witness == Len(pgp_inbox) = InboxCap /\ Len(sightings) > InboxCap

\* The last n elements of s.
Suffix(s, n) == SubSeq(s, Len(s) - n + 1, Len(s))

\* C2: eviction is strict FIFO: after n sightings recorded into the cache
\* that starts empty, the cache is the last min(n, 50) of them in their
\* order of insertion.
C2_FifoEviction == pgp_inbox = Suffix(sightings, Min(Len(sightings), InboxCap))

\* More than 50 sightings were recorded, the first of them a block no later
\* one repeats: 50 remain and the first is gone.
C2_Witness ==
    /\ Len(sightings) > InboxCap
    /\ Len(pgp_inbox) = InboxCap
    /\ \A i \in 2..Len(sightings) : sightings[i] # sightings[1]
    /\ \A i \in 1..Len(pgp_inbox) : pgp_inbox[i] # sightings[1]

\* --------------------------------------------------- the command router

\* The words of the command line the iteration under way took, if any.
StepParts ==
    IF step.kind = "cmd" /\ IsSome(step.input)
    THEN split_whitespace(Unwrap(step.input)) ELSE <<>>

\* A command outside CallsOut has made no call: one behaviour of gpg and
\* of the chat service stands for all of them there.
QuietCommandsMakeNoCall ==
    (step.kind = "cmd" /\ IsSome(step.input) /\ ~CallsOut(Unwrap(step.input)))
       => step.calls = <<>>

\* Lines with a missing, malformed or unparseable argument.
MalformedLines ==
    { <<"export", " ", "channel", " ", "abc">>, <<"export", " ", "unset", " ", "foo">>,
      <<"load", " ", "x">>, <<"pgp", " ", "send", " ", "-r", " ", "alice">>, <<"send">>,
      <<"load">>, <<"load", " ", "-", "1">>, <<"export">>, <<"export", " ", "bogus">>,
      <<"export", " ", "recipient">>, <<"export", " ", "channel">>,
      <<"export", " ", "unset">>, <<"pgp">>, <<"pgp", " ", "bogus">>,
      <<"pgp", " ", "decrypt">>, <<"pgp", " ", "send">>, <<"pgp", " ", "send", " ", "-r">> }

\* The errors the router returns for such arguments.
ArgumentErrors ==
    { <<"Usage: export recipient <fpr|uid>">>, <<"Usage: export channel <channel_id>">>,
      <<"channel_id must be an integer">>, <<"Usage: export unset <fpr|channel>">>,
      <<"Usage: export <recipient|channel|show|unset> ...">>,
      <<"Usage: send <message...>">>, <<"Usage: load <count>">>,
      <<"load <count> must be a number">>, <<"Usage: pgp decrypt <id>">>,
      <<"Usage: pgp <list|send|decrypt <id>|decrypt-last>">>,
      UsagePgpSend, UsagePgpSendR }

\* C5: a command that returns an error because of a missing, malformed or
\* unparseable argument has changed neither the session overrides nor the
\* inbox cache and has made no crypto or transport call; the lines with
\* such an argument all fail this way.
C5_ArgumentErrorsHaveNoEffect ==
    /\ (step.kind = "cmd" /\ IsSome(step.input) /\ Unwrap(step.input) \in MalformedLines)
          => (~step.ok /\ step.err \in ArgumentErrors)
    /\ (step.kind = "cmd" /\ ~step.ok /\ step.err \in ArgumentErrors)
          => /\ env = step.before.env
             /\ pgp_inbox = step.before.inbox
             /\ step.calls = <<>>

\* load x has failed with a session recipient set and sightings cached.
C5_Witness ==
    /\ step.kind = "cmd"
    /\ step.input = Some(<<"load", " ", "x">>)
    /\ ~step.ok
    /\ IsSome(env.default_fpr)
    /\ pgp_inbox # <<>>

\* The iteration under way took pgp decrypt <id>.
IsDecryptById ==
    /\ Len(StepParts) >= 3
    /\ StepParts[1] = Tok("pgp")
    /\ StepParts[2] = Tok("decrypt")

\* The iteration under way took pgp decrypt-last.
IsDecryptLast ==
    /\ Len(StepParts) >= 2
    /\ StepParts[1] = Tok("pgp")
    /\ StepParts[2] = Tok("decrypt-last")

\* No sighting the cache held before the iteration has the id asked for.
IdUnknown == \A i \in 1..Len(step.before.inbox) : step.before.inbox[i][1] # StepParts[3]

UnknownBlockId(id) == <<"No captured PGP message with id=">> \o id

\* C6: pgp decrypt <id> with no sighting of that id in the cache fails with
\* the unknown-id error and makes no call to the crypto gateway, whatever
\* the cache holds.
C6_UnknownIdFails ==
    (IsDecryptById /\ IdUnknown)
       => /\ ~step.ok
          /\ step.err = UnknownBlockId(StepParts[3])
          /\ step.calls = <<>>

\* pgp decrypt of an id not cached has failed on a cache that is not empty.
C6_Witness ==
    /\ IsDecryptById /\ IdUnknown
    /\ step.before.inbox # <<>>
    /\ ~step.ok

\* The decrypt calls the iteration under way made.
DecryptCalls == SelectSeq(step.calls, LAMBDA c : c.fn = "decrypt")

\* The statement of C7 as the specification words it: for pgp decrypt <id>
\* and for pgp decrypt-last alike, a lookup that finds no block makes the
\* command fail with the unknown-id error.
C7_AsStated ==
    /\ (IsDecryptById /\ IdUnknown) => ~step.ok
    /\ (IsDecryptLast /\ step.before.inbox = <<>>) => ~step.ok

\* C7, as the code has it: pgp decrypt <id> with an unknown id fails with
\* the unknown-id error; pgp decrypt-last on an empty cache does not fail:
\* it returns Continue with the one warning line that nothing was captured
\* yet; in both, decrypt is called only when a block was found, once, on
\* that block, and never otherwise.
C7_LookupThenDecrypt ==
    /\ (IsDecryptById /\ IdUnknown)
          => (~step.ok /\ step.err = UnknownBlockId(StepParts[3]) /\ DecryptCalls = <<>>)
    /\ (IsDecryptById /\ ~IdUnknown)
          => /\ step.ok
             /\ DecryptCalls
                   = <<CallDecrypt(Unwrap(inbox_find(step.before.inbox, StepParts[3]))[2])>>
    /\ (IsDecryptLast /\ step.before.inbox = <<>>)
          => /\ step.ok /\ step.outcome = "Continue"
             /\ step.sent = <<UiLine(render_warn(<<"No PGP messages captured yet.">>))>>
             /\ DecryptCalls = <<>>
    /\ (IsDecryptLast /\ step.before.inbox # <<>>)
          => /\ step.ok
             /\ DecryptCalls
                   = <<CallDecrypt(step.before.inbox[Len(step.before.inbox)][2])>>

\* pgp decrypt-last has been run on an empty cache and has not failed.
C7_Witness == IsDecryptLast /\ step.before.inbox = <<>> /\ step.ok

\* C8: pgp decrypt <id> and pgp decrypt-last leave the inbox cache as it
\* was, in content and order, whatever the cache held and however the
\* decryption ended.
C8_DecryptKeepsCache == (IsDecryptById \/ IsDecryptLast) => pgp_inbox = step.before.inbox

\* A cached block has been decrypted by id, with success.
C8_Witness ==
    /\ IsDecryptById
    /\ DecryptCalls # <<>>
    /\ step.sent # <<>>
    /\ step.sent[1].s[1] = "Decrypted"
    /\ pgp_inbox # <<>>

\* The iteration under way took pgp send -r R MSG...
IsPgpSendTo ==
    /\ Len(StepParts) >= 5
    /\ StepParts[1] = Tok("pgp")
    /\ StepParts[2] = Tok("send")
    /\ StepParts[3] = Tok("-r")

\* The iteration under way took pgp send MSG... with no recipient flag.
IsPgpSendPlain ==
    /\ Len(StepParts) >= 3
    /\ StepParts[1] = Tok("pgp")
    /\ StepParts[2] = Tok("send")
    /\ StepParts[3] # Tok("-r")

EncryptCalls == SelectSeq(step.calls, LAMBDA c : c.fn = "encrypt")

\* C9: pgp send -r R MSG... calls encrypt with the recipient R and with the
\* message words joined by single spaces, whether or not a session
\* recipient is set and whatever it is, and leaves the session recipient
\* as it was.
C9_ExplicitRecipient ==
    IsPgpSendTo
       => /\ EncryptCalls
                = <<CallEncrypt(StepParts[4], join(SubSeq(StepParts, 5, Len(StepParts)), <<" ">>))>>
          /\ env = step.before.env

\* pgp send -r alice secret  text was run with another session recipient
\* set: encrypt was called for alice with "secret text".
C9_Witness ==
    /\ IsPgpSendTo
    /\ IsSome(step.before.env.default_fpr)
    /\ Unwrap(step.before.env.default_fpr) # <<"alice">>
    /\ EncryptCalls = <<CallEncrypt(<<"alice">>, <<"secret", " ", "text">>)>>

\* C10: pgp send MSG... with no recipient flag encrypts to the session
\* recipient; with no session recipient set it fails with the missing
\* recipient error and calls neither encrypt nor the transport send.
C10_SessionRecipient ==
    IsPgpSendPlain
       => IF IsSome(step.before.env.default_fpr)
          THEN EncryptCalls
                  = <<CallEncrypt(Unwrap(step.before.env.default_fpr),
                                  join(SubSeq(StepParts, 3, Len(StepParts)), <<" ">>))>>
          ELSE ~step.ok /\ step.err = NoRecipient /\ step.calls = <<>>

\* pgp send with no flag has failed for want of a session recipient.
C10_Witness ==
    /\ IsPgpSendPlain
    /\ ~IsSome(step.before.env.default_fpr)
    /\ ~step.ok
    /\ step.err = NoRecipient

SendCalls == SelectSeq(step.calls, LAMBDA c : c.fn = "send_message")

\* The iteration under way took pgp send with a message.
IsPgpSend == IsPgpSendTo \/ IsPgpSendPlain

\* What gpg answered to the encrypt call of the iteration under way.
StepEncrypted ==
    encrypt_to_recipient(EncryptCalls[1].recipient, EncryptCalls[1].plaintext,
                         Unwrap(step.world).gpg)

\* C11: pgp send calls the transport send only after encrypt has succeeded,
\* with what encrypt returned, and at most once; it reports success, with
\* the confirmation line, exactly when both succeeded; a failed encrypt
\* means no send, and a failed send means the error is surfaced and no
\* second send.
C11_EncryptThenSendOnce ==
    /\ IsPgpSend
          => /\ Len(EncryptCalls) <= 1 /\ Len(SendCalls) <= 1
             /\ step.calls = EncryptCalls \o SendCalls
             /\ EncryptCalls = <<>> => (SendCalls = <<>> /\ ~step.ok)
    /\ (IsPgpSend /\ EncryptCalls # <<>>)
          => /\ ~StepEncrypted.ok
                   => (~step.ok /\ step.err = StepEncrypted.err /\ SendCalls = <<>>)
             /\ StepEncrypted.ok
                   => SendCalls = <<CallSend(set_channel_id(step.before.env),
                                             StepEncrypted.val)>>
             /\ (StepEncrypted.ok /\ Unwrap(step.world).net # "ok")
                   => /\ ~step.ok /\ step.err = TransportError
                      /\ step.sent = <<UiLine(render_error(TransportError))>>
             /\ step.ok <=> (StepEncrypted.ok /\ Unwrap(step.world).net = "ok")
             /\ step.ok
                   => step.sent
                         = <<UiLine(<<"-> sent encrypted PGP message", " ", "to", " ">>
                                       \o EncryptCalls[1].recipient)>>

\* pgp send has encrypted, the send has failed: one send call, an error.
C11_Witness ==
    /\ IsPgpSend
    /\ EncryptCalls # <<>>
    /\ Len(SendCalls) = 1
    /\ ~step.ok
    /\ step.err = TransportError

\* ------------------------------------------------------------ chat events

\* The session channel override if set, else the static default.
EffectiveChannel(e) ==
    IF e.channel_id = None THEN cfg.channel_id ELSE e.channel_id[1]

\* The iteration under way took a chat event.
IsChatEvent == step.kind = "chat" /\ IsSome(step.input)

\* The event taken is of the channel that was effective when it was taken.
OnEffectiveChannel ==
    Unwrap(step.input).channel_id = EffectiveChannel(step.before.env)

\* C12: a chat event of a channel other than the effective channel is
\* discarded in silence: nothing is sent to the presentation, no decrypt or
\* other call is made, no sighting is recorded, the cache and the session
\* overrides are as before, and the loop stays Running.
C12_OtherChannelDiscarded ==
    (IsChatEvent /\ ~OnEffectiveChannel)
       => /\ ~step.accepted
          /\ step.sent = <<>>
          /\ step.calls = <<>>
          /\ pgp_inbox = step.before.inbox
          /\ env = step.before.env
          /\ state = "Running"

\* With the channel exported, an event of the static default channel that
\* carries a block has been discarded.
C12_Witness ==
    /\ IsChatEvent
    /\ ~OnEffectiveChannel
    /\ IsSome(step.before.env.channel_id)
    /\ Unwrap(step.input).channel_id = cfg.channel_id
    /\ IsSome(detect_pgp(Unwrap(step.input).content))
    /\ ~step.accepted

\* The kind of line a block of the event is rendered with, by how gpg
\* behaved: decrypted, not for me, invalid, or decrypt error.
PgpLineKinds(author, id, g) ==
    CASE g = "ok" -> {render_pgp_decrypted(author, id, Plaintext)}
      [] g = "keyed" -> {render_pgp_decrypted(author, id, Plaintext),
                         render_pgp_unknown(author, id)}
      [] g = "nokey" -> {render_pgp_unknown(author, id)}
      [] g = "badarmor" -> {render_pgp_invalid(author, id)}
      [] OTHER -> {render_pgp_error(author, id)}

\* The cache has taken one sighting at its tail, over the cache before.
AppendedOne(sighting) ==
    /\ pgp_inbox # <<>>
    /\ pgp_inbox[Len(pgp_inbox)] = sighting
    /\ Len(pgp_inbox) = Min(Len(step.before.inbox) + 1, InboxCap)
    /\ SubSeq(pgp_inbox, 1, Len(pgp_inbox) - 1)
          = Suffix(step.before.inbox, Len(pgp_inbox) - 1)

\* C13: a chat event of the effective channel whose text holds a block
\* puts exactly one sighting at the tail of the cache whatever decrypt
\* answers, makes exactly one decrypt call, on the block, and yields
\* exactly one line, of the kind of the outcome; an event with no block
\* leaves the cache as it was and yields the one plain line.
C13_ChatEventClassified ==
    (IsChatEvent /\ OnEffectiveChannel)
       => /\ step.accepted
          /\ Len(step.sent) = 1
          /\ step.sent[1].type = "Line"
          /\ IF detect_pgp(Unwrap(step.input).content) # None
             THEN /\ AppendedOne(detect_pgp(Unwrap(step.input).content)[1])
                  /\ step.calls
                        = <<CallDecrypt(detect_pgp(Unwrap(step.input).content)[1][2])>>
                  /\ step.sent[1].s
                        \in PgpLineKinds(Unwrap(step.input).author,
                                         detect_pgp(Unwrap(step.input).content)[1][1],
                                         Unwrap(step.world).gpg)
             ELSE /\ pgp_inbox = step.before.inbox
                  /\ step.calls = <<>>
                  /\ step.sent[1].s
                        = render_incoming(Unwrap(step.input).author,
                                          Unwrap(step.input).content)

\* A block has arrived with the cache full and gpg without the secret
\* key: it is recorded, the oldest sighting is gone.
C13_Witness ==
    /\ IsChatEvent /\ OnEffectiveChannel
    /\ detect_pgp(Unwrap(step.input).content) # None
    /\ Len(step.before.inbox) = InboxCap
    /\ Unwrap(step.world).gpg = "nokey"
    /\ pgp_inbox[Len(pgp_inbox)] = detect_pgp(Unwrap(step.input).content)[1]
    /\ pgp_inbox[1] # step.before.inbox[1]

\* ------------------------------------------------------ session overrides

\* The iteration under way took export recipient, export channel or
\* export unset.
IsExportSetOrUnset ==
    /\ Len(StepParts) >= 2
    /\ StepParts[1] = Tok("export")
    /\ StepParts[2] \in {Tok("recipient"), Tok("channel"), Tok("unset")}

\* C14: the session overrides change only in export recipient, export
\* channel and export unset; a chat event, live or replayed by load, and
\* every other command leave both as they were.
C14_OverridesChangeOnlyByExport ==
    /\ (step.kind # "select" /\ env # step.before.env) => IsExportSetOrUnset
    /\ step.kind = "chat" => env = step.before.env
    /\ (StepParts # <<>> /\ StepParts[1] = Tok("load")) => env = step.before.env

\* With both overrides set, load has replayed blocks into the cache and
\* the overrides are as before.
C14_Witness ==
    /\ StepParts # <<>> /\ StepParts[1] = Tok("load")
    /\ step.ok
    /\ pgp_inbox # step.before.inbox
    /\ IsSome(step.before.env.default_fpr)
    /\ IsSome(step.before.env.channel_id)
    /\ env = step.before.env

IsExportChannel ==
    /\ Len(StepParts) >= 3
    /\ StepParts[1] = Tok("export")
    /\ StepParts[2] = Tok("channel")

IsExportUnsetChannel ==
    /\ Len(StepParts) >= 3
    /\ StepParts[1] = Tok("export")
    /\ StepParts[2] = Tok("unset")
    /\ StepParts[3] = Tok("channel")

\* The iteration under way took export show.
IsExportShow ==
    /\ Len(StepParts) >= 2
    /\ StepParts[1] = Tok("export")
    /\ StepParts[2] = Tok("show")

\* C15: export unset channel brings the effective channel back to the
\* static default, whatever was exported before, and it stays there until
\* the next export channel: the channel override changes in no other
\* step.  At every step the effective channel, which export show prints,
\* which selects the chat events taken and to which messages are sent, is
\* the override when one is set and the static default otherwise.
C15_EffectiveChannel ==
    /\ (IsExportUnsetChannel /\ step.ok)
          => /\ env.channel_id = None
             /\ set_channel_id(env) = cfg.channel_id
    /\ (IsExportChannel /\ step.ok)
          => /\ env.channel_id = Some(parse_int(StepParts[3]).val)
             /\ set_channel_id(env) = parse_int(StepParts[3]).val
    /\ (step.kind # "select" /\ env.channel_id # step.before.env.channel_id)
          => (IsExportChannel \/ IsExportUnsetChannel)
    /\ set_channel_id(env) = EffectiveChannel(env)
    /\ IsExportShow
          => step.sent[2].s
                = <<"  ", "channel", " ">> \o to_string(EffectiveChannel(step.before.env))
    /\ IsChatEvent => (step.accepted <=> OnEffectiveChannel)
    /\ \A i \in 1..Len(step.calls) :
          step.calls[i].fn \in {"send_message", "fetch_messages"}
             => step.calls[i].channel_id = EffectiveChannel(step.before.env)

\* The channel was exported and has been unset: the static default is
\* effective again.
C15_Witness ==
    /\ IsExportUnsetChannel /\ step.ok
    /\ step.before.env.channel_id = Some(OtherChannel)
    /\ set_channel_id(env) = cfg.channel_id
    /\ set_channel_id(env) # OtherChannel

\* ------------------------------------------------ failure classification

NoSecretKeyPhrases ==
    { <<"no", " ", "secret", " ", "key">>,
      <<"decryption", " ", "failed:", " ", "no", " ", "secret", " ", "key">>,
      <<"secret", " ", "key", " ", "not", " ", "available">> }

InvalidFramingPhrases ==
    { <<"no", " ", "valid", " ", "openpgp", " ", "data", " ", "found">>,
      <<"invalid", " ", "armor", " ", "header">>,
      <<"crc", " ", "error">>,
      <<"unexpected", " ", "end", " ", "of", " ", "file">>,
      <<"bad", " ", "armor">>,
      <<"invalid", " ", "packet">> }

\* The diagnostic d has one of the phrases, whatever the case of its letters.
HasPhrase(d, phrases) ==
    \E q \in phrases : \E i \in 1..Len(d) :
        /\ i + Len(q) - 1 <= Len(d)
        /\ \A k \in 1..Len(q) : LowerAtom(d[i + k - 1]) = q[k]

Classified == probe.fn = "classify_decrypt_failure" /\ answer # None

\* C16: classification is total and the first match wins: a diagnostic
\* with a no-secret-key phrase, in any case, is NotForMe whatever else it
\* holds; one with an invalid-framing phrase and no secret-key phrase is
\* InvalidMessage; every other one is GpgFailed, the backend failure; the
\* variant keeps the diagnostic as it was written.
C16_ClassificationTotalFirstMatch ==
    Classified
       => /\ answer[1].variant \in {"NotForMe", "InvalidMessage", "GpgFailed"}
          /\ answer[1].stderr = probe.arg
          /\ answer[1].variant = "NotForMe"
                <=> HasPhrase(probe.arg, NoSecretKeyPhrases)
          /\ answer[1].variant = "InvalidMessage"
                <=> /\ ~HasPhrase(probe.arg, NoSecretKeyPhrases)
                    /\ HasPhrase(probe.arg, InvalidFramingPhrases)
          /\ answer[1].variant = "GpgFailed"
                <=> /\ ~HasPhrase(probe.arg, NoSecretKeyPhrases)
                    /\ ~HasPhrase(probe.arg, InvalidFramingPhrases)

\* A diagnostic that reports bad armor first and no secret key after it,
\* with capitals, has been classified NotForMe.
C16_Witness ==
    /\ Classified
    /\ probe.arg = <<"Bad", " ", "Armor", "\n", "No", " ", "Secret", " ", "Key">>
    /\ answer[1].variant = "NotForMe"

\* ------------------------------------------------------ payload detector

\* The positions (1-based) at which the marker occurs in the text.
Occurrences(t, marker) ==
    {i \in 1..Len(t) :
        /\ i + Len(marker) - 1 <= Len(t)
        /\ \A k \in 1..Len(marker) : t[i + k - 1] = marker[k]}

First(positions) == CHOOSE i \in positions : \A j \in positions : i <= j

\* The end markers at or after the first begin marker.
EndsAfterBegin(t) ==
    IF Occurrences(t, BEGIN) = {} THEN {}
    ELSE {j \in Occurrences(t, END) : j >= First(Occurrences(t, BEGIN))}

\* The text without the whitespace at its two ends.
Trimmed(t) ==
    IF \A i \in 1..Len(t) : t[i] \in WS THEN <<>>
    ELSE SubSeq(t, First({i \in 1..Len(t) : t[i] \notin WS}),
                   CHOOSE i \in 1..Len(t) :
                       /\ t[i] \notin WS
                       /\ \A j \in (i + 1)..Len(t) : t[j] \in WS)

Detected == probe.fn = "detect_pgp" /\ answer # None

\* C17: detect returns no match for a text with a begin marker and no end
\* marker at or after it, and for a text with no begin marker; otherwise
\* it returns the block, the trimmed text from the start of the first
\* begin marker through the end of the first end marker at or after it,
\* with a fingerprint that depends on the block alone: the block by itself
\* is detected with the same fingerprint.
C17_DetectBlock ==
    Detected
       => /\ EndsAfterBegin(probe.arg) = {} <=> answer[1] = None
          /\ answer[1] # None
                => /\ answer[1][1][2]
                         = Trimmed(SubSeq(probe.arg, First(Occurrences(probe.arg, BEGIN)),
                                          First(EndsAfterBegin(probe.arg)) + Len(END) - 1))
                   /\ detect_pgp(answer[1][1][2]) = answer[1]
                   /\ answer[1][1][1] = pgp_block_id(answer[1][1][2])

\* An end marker precedes the begin marker and two follow it: the block
\* runs from the begin marker through the first end marker after it.
C17_Witness ==
    /\ Detected
    /\ probe.arg = END \o BEGIN \o END \o END
    /\ answer[1] # None
    /\ answer[1][1][2] = BEGIN \o END

\* ------------------------------------------------------------ termination

IsPrefix(s, t) == Len(s) <= Len(t) /\ SubSeq(t, 1, Len(s)) = s

\* The iteration under way took a line whose first word is quit, exit or q.
IsQuitLine == StepParts # <<>> /\ StepParts[1] \in {Tok("quit"), Tok("exit"), Tok("q")}

\* The iteration under way got the Quit outcome, or found the command
\* source closed.
StoppedByCommand ==
    /\ step.kind = "cmd"
    /\ \/ step.accepted /\ step.ok /\ step.outcome = "Quit"
       \/ ~step.accepted /\ step.outcome = "Closed"

\* C18: a quit line yields Quit; the iteration that gets Quit or finds the
\* command source closed leaves Running at once; and from then on the loop
\* takes no line and no event: what is queued in the two sources stays
\* queued, the session and the cache stay as they are and the loop sends
\* nothing more to the presentation.
C18_StopsAtOnce ==
    /\ [](IsQuitLine => (step.ok /\ step.outcome = "Quit"))
    /\ [](StoppedByCommand => state # "Running")
    /\ [][state # "Running"
             => /\ state' # "Running"
                /\ step' = step
                /\ env' = env /\ pgp_inbox' = pgp_inbox /\ sightings' = sightings
                /\ IsPrefix(rx, rx')
                /\ IsPrefix(cmd_rx, cmd_rx')
                /\ (ui' = ui \/ (ui # <<>> /\ ui' = Tail(ui)))]_vars

\* Quit has been obeyed with an event and a line still queued.
C18_Witness ==
    /\ state = "Terminating"
    /\ StoppedByCommand
    /\ step.outcome = "Quit"
    /\ rx # <<>>
    /\ cmd_rx # <<>>

\* The command source was found closed with an event still queued.
C18_WitnessClosed ==
    /\ state = "Terminating"
    /\ step.outcome = "Closed"
    /\ rx # <<>>

\* C19, as stated: when the process stops, after Quit or after the command
\* source closed, every UiEvent the loop sent has been printed and the
\* printer has stopped.
C19_SinkFlushedBeforeExit ==
    state = "Exited" => (ui = <<>> /\ threads.printer = "stopped")

\* main has returned after quit with the printer still running and the
\* Exit event not yet taken.
C19_LostOutput ==
    /\ state = "Exited"
    /\ step.outcome = "Quit"
    /\ threads.printer = "running"
    /\ ui # <<>>
    /\ ui[Len(ui)].type = "Exit"

\* ------------------------------------------------- the stream has ended

\* C20: the end of the event stream leaves the loop Running, and with the
\* stream ended the loop still takes every line in the command queue: the
\* queue is drained in the end, unless a quit among the lines has ended
\* the loop before.
C20_CommandsAfterStreamEnd ==
    /\ []((step.kind = "chat" /\ step.input = None) => state = "Running")
    /\ (threads.gateway = "ended" /\ cmd_rx # <<>>)
          ~> (cmd_rx = <<>> \/ state # "Running")

\* With the stream ended before it delivered any event, the loop has
\* processed a command and is still Running.
C20_Witness ==
    /\ threads.gateway = "ended"
    /\ rx = <<>>
    /\ state = "Running"
    /\ step.kind = "cmd"
    /\ step.accepted
    /\ budget.delivered = MaxDelivered

\* ---------------------------------------------------------------- order

\* The queue q becomes q2 by one item joining it at the tail.
Enqueued(q, q2) == Len(q2) = Len(q) + 1 /\ IsPrefix(q, q2)

\* The loop starts an iteration on an item it received.
TakesChatEvent == step.kind = "select" /\ step'.kind = "chat" /\ IsSome(step'.input)
TakesLine == step.kind = "select" /\ step'.kind = "cmd" /\ IsSome(step'.input)

\* C21: each source is a queue the loop takes from at the head and its
\* producer adds to at the tail, whatever the other source does in between,
\* so lines are handled in the order the input thread sent them and events
\* in the order the gateway task sent them; what an iteration sends to the
\* presentation joins the tail of its queue, behind what earlier
\* iterations sent, and the printer takes from the head.
C21_ArrivalOrder ==
    [][/\ TakesChatEvent
             => (rx # <<>> /\ Unwrap(step'.input) = Head(rx) /\ rx' = Tail(rx))
       /\ TakesLine
             => (cmd_rx # <<>> /\ Unwrap(step'.input) = Head(cmd_rx)
                 /\ cmd_rx' = Tail(cmd_rx))
       /\ rx' # rx => (TakesChatEvent \/ Enqueued(rx, rx'))
       /\ cmd_rx' # cmd_rx => (TakesLine \/ Enqueued(cmd_rx, cmd_rx'))
       /\ (step' # step /\ step'.kind # "select" /\ threads.printer # "stopped")
             => ui' = ui \o step'.sent
       /\ (step' = step \/ step'.kind = "select")
             => (ui' = ui \/ (ui # <<>> /\ ui' = Tail(ui)) \/ ui' = <<>>)]_vars

\* Two different events were delivered and a line waits: the loop has taken
\* the first event, its output is the last queued for the printer, and
\* the second event is still in the queue.
C21_Witness ==
    /\ step.kind = "chat" /\ step.accepted
    /\ budget.delivered = 0
    /\ rx # <<>>
    /\ Head(rx) # Unwrap(step.input)
    /\ cmd_rx # <<>>
    /\ ui # <<>>
    /\ ui[Len(ui)] = step.sent[Len(step.sent)]

\* -------------------------------------------------- one item at a time

\* An iteration of the loop is under way.
Processing == step.kind # "select"

\* A thread beside the loop moves: the input thread, the gateway task or
\* the printer.
ThreadMoves ==
    \/ threads' # threads
    \/ Enqueued(rx, rx')
    \/ Enqueued(cmd_rx, cmd_rx')
    \/ (step' = step /\ ui' # ui)

\* C22: while an iteration is under way the loop takes no other item, so
\* no two items are ever in process together; the cache and the session
\* overrides change only in the step by which the loop processes an item,
\* and no step of the input thread, of the gateway task or of the printer
\* touches them.
C22_OneItemAtATime ==
    [][/\ Processing => (step' = step \/ step'.kind = "select")
       /\ (env' # env \/ pgp_inbox' # pgp_inbox)
             => (~Processing /\ step'.kind \in {"chat", "cmd"} /\ step'.accepted)
       /\ ThreadMoves => (env' = env /\ pgp_inbox' = pgp_inbox /\ step' = step)]_vars

\* An event is in process, it has been recorded in the cache, and a line
\* and another event wait in their queues.
C22_Witness ==
    /\ Processing
    /\ step.kind = "chat"
    /\ pgp_inbox # step.before.inbox
    /\ cmd_rx # <<>>
    /\ rx # <<>>

\* ------------------------------------------------------- no backpressure

\* C23: the loop never waits for the printer: with the loop in select! and
\* an item in a source, the branch for it can be taken whatever the
\* number of UiEvents pending and whether or not the printer still runs;
\* a send to a stopped printer is dropped and the iteration goes on.
C23_NeverWaitsForPrinter ==
    /\ (state = "Running" /\ step.kind = "select" /\ rx # <<>>) =>
           \A w \in Worlds :
               IF Head(rx).channel_id = set_channel_id(env)
               THEN \E h \in {handle_chat_event(Head(rx), pgp_inbox, w.gpg)} :
                        ENABLED (/\ LoopTakesEvent
                                 /\ ChatHandled(Some(Head(rx)), w, h)
                                 /\ ui' = ui_send(step'.sent))
               ELSE ENABLED (/\ LoopTakesEvent
                             /\ chat_skip(Some(Head(rx)))
                             /\ ui' = ui_send(step'.sent))
    /\ (state = "Running" /\ step.kind = "select" /\ cmd_rx # <<>>) => ENABLED LoopCmd
    /\ (Processing /\ threads.printer = "stopped" /\ state = "Running") => ui = <<>>

\* The printer has taken nothing, two lines of an earlier command are
\* pending, and the loop has processed an event and queued its line
\* behind them.
C23_Witness ==
    /\ step.kind = "chat" /\ step.accepted
    /\ threads.printer = "running"
    /\ Len(ui) >= 3
    /\ ui[Len(ui)] = step.sent[1]

\* The printer was never started and the loop has processed an event.
C23_WitnessStopped ==
    /\ step.kind = "chat" /\ step.accepted
    /\ threads.printer = "stopped"
    /\ state = "Running"
    /\ ui = <<>>

\* ------------------------------------------------------------------ C24

\* The number of entries of inbox with the fingerprint id.
Times(inbox, id) == Cardinality({i \in 1..Len(inbox) : inbox[i][1] = id})

\* The sightings a step records.
NewSightings == SubSeq(sightings', Len(sightings) + 1, Len(sightings'))

\* A step records a block whose fingerprint the cache holds already, or
\* holds more than once.
Resights ==
    /\ sightings' # sightings
    /\ \/ \E i \in 1..Len(NewSightings) : Times(pgp_inbox, NewSightings[i][1]) > 0
       \/ \E i \in 1..Len(pgp_inbox) : Times(pgp_inbox, pgp_inbox[i][1]) > 1

\* C24: a block identical to one already cached is not coalesced: every
\* sighting is appended as an entry of its own behind the entries there
\* are, which keep their places, so a fingerprint can occur several times;
\* and what is evicted is the oldest entries by position, whether or not
\* their fingerprint occurs again further back in the cache.
C24_DuplicatesKept ==
    [][ Resights =>
          /\ pgp_inbox' = Suffix(pgp_inbox \o NewSightings,
                                 Min(Len(pgp_inbox) + Len(NewSightings), InboxCap))
          /\ Len(NewSightings) = 1 =>
                Times(pgp_inbox', NewSightings[1][1])
                  = Times(pgp_inbox, NewSightings[1][1]) + 1
                    - (IF Len(pgp_inbox) = InboxCap
                          /\ pgp_inbox[1][1] = NewSightings[1][1]
                       THEN 1 ELSE 0) ]_vars

\* The same block has been sighted twice and the cache holds it twice.
C24_Witness ==
    /\ step.kind = "chat" /\ step.accepted
    /\ Times(step.before.inbox, IdA) = 1
    /\ Times(pgp_inbox, IdA) = 2
    /\ Len(pgp_inbox) > 2

\* The cache held the same block in its two oldest entries; a replay has
\* evicted the older of them and the other is now the oldest entry.
C24_WitnessEvictedOne ==
    /\ step.kind = "cmd"
    /\ Len(step.before.inbox) = 2
    /\ Times(step.before.inbox, IdA) = 2
    /\ Len(pgp_inbox) = InboxCap
    /\ Times(pgp_inbox, IdA) = 1
    /\ pgp_inbox[1][1] = IdA

\* ------------------------------------------------------------------ C25

\* The sighting recorded last, by a live event or by a replayed one.
LastSighting == sightings[Len(sightings)]

\* C25: pgp decrypt-last with the cache not empty attempts the decryption
\* of the sighting recorded most recently and of no other: it calls decrypt
\* once, on that block, and renders the outcome under that fingerprint,
\* whatever was recorded and evicted before.
C25_DecryptLastIsNewest ==
    (IsDecryptLast /\ step.before.inbox # <<>>)
       => /\ sightings # <<>>
          /\ step.calls = <<CallDecrypt(LastSighting[2])>>
          /\ step.ok
          /\ IsSome(step.world)
          /\ step.sent = UiLines(render_decrypt_result(
                                    LastSighting[1],
                                    decrypt(LastSighting[2], Unwrap(step.world).gpg)))

\* decrypt-last has run after a live sighting that followed a replay with
\* evictions: the cache is full and its oldest entry is another block.
C25_Witness ==
    /\ IsDecryptLast
    /\ Len(sightings) > InboxCap
    /\ LastSighting[1] = IdA
    /\ pgp_inbox[1][1] # IdA
    /\ step.calls # <<>>

\* decrypt-last has run after a replay that followed a live sighting.
C25_WitnessReplayed ==
    /\ IsDecryptLast
    /\ sightings # <<>>
    /\ LastSighting[1] = IdArchived
    /\ pgp_inbox[1][1] = IdA
    /\ step.calls # <<>>

\* ------------------------------------------------------------------ C26

\* The sequences of ss joined in order.
RECURSIVE Flat(_)
Flat(ss) ==
    IF ss = <<>> THEN <<>>
    ELSE IF Len(ss) = 1 THEN ss[1]
    ELSE Flat(SubSeq(ss, 1, Len(ss) \div 2))
            \o Flat(SubSeq(ss, (Len(ss) \div 2) + 1, Len(ss)))

\* The iteration under way took load <count> and the chat service
\* returned messages.
IsReplay ==
    /\ Len(StepParts) >= 2
    /\ StepParts[1] = Tok("load")
    /\ step.calls # <<>>
    /\ step.calls[1].fn = "fetch_messages"
    /\ IsSome(step.world)
    /\ Unwrap(step.world).net = "ok"
    /\ step.calls[1].limit > 0

\* What the chat service returned to the load under way, oldest first.
Fetched == fetch_messages(step.calls[1].channel_id, step.calls[1].limit, "ok").val

\* What handling each fetched message as a live event yields, in order.
AsLive ==
    [i \in 1..Len(Fetched) |->
        handle_chat_event(Fetched[i], <<>>, Unwrap(step.world).gpg)]

\* C26: load replays the fetched messages, in the order returned, through
\* the handler of live events: after the heading, the lines are those the
\* handler gives for each message, in order; decrypt is called once for
\* each message with a block, in order; and the cache is what it was with
\* those blocks recorded in order behind it, cut from the front to 50.
C26_ReplayAsLive ==
    IsReplay =>
       /\ step.ok /\ step.outcome = "Continue"
       /\ step.sent
             = <<UiLine(<<"Loading", " ">> \o to_string(Len(Fetched)) \o <<"/">>
                          \o to_string(step.calls[1].limit) \o <<" ", "messages...">>)>>
               \o UiLines(Flat([i \in 1..Len(Fetched) |-> AsLive[i].lines]))
       /\ Tail(step.calls) = Flat([i \in 1..Len(Fetched) |-> AsLive[i].calls])
       /\ LET all == step.before.inbox
                        \o Flat([i \in 1..Len(Fetched) |-> AsLive[i].recorded])
          IN  pgp_inbox = Suffix(all, Min(Len(all), InboxCap))

\* A replay of more messages than the cache holds, some plain, onto a
\* cache that held a live sighting: blocks replayed have been evicted.
C26_Witness ==
    /\ IsReplay
    /\ Len(Fetched) > InboxCap
    /\ step.before.inbox # <<>>
    /\ Len(pgp_inbox) = InboxCap
    /\ Len(step.calls) > InboxCap + 1
    /\ Len(step.sent) > Len(step.calls)

\* ------------------------------------------------------------------ C27

\* The loop with items waiting for it: up to MaxQueued events and up to
\* MaxQueued lines are in the queues before the loop takes the first of
\* them, and nothing arrives later.  Every event was sent by the gateway
\* task while no channel was exported.
MaxQueued == 2

QueuedLines ==
    { <<"export", " ", "channel", " ">> \o to_string(OtherChannel),
      <<"export", " ", "unset", " ", "channel">>,
      <<"help">> }

InitLoopQueued ==
    /\ env = SessionEnvDefault
    /\ pgp_inbox = <<>>
    /\ state = "Running"
    /\ step = NoStep
    /\ sightings = <<>>
    /\ budget = [live |-> MaxQueued, loads |-> 0, typed |-> 0, delivered |-> 0]
    /\ rx \in Concats({<<e>> : e \in DeliveredEvents}, MaxQueued)
    /\ cmd_rx \in Concats({<<l>> : l \in QueuedLines}, MaxQueued)
    /\ ui = <<>>
    /\ threads = [input |-> "reading", gateway |-> "open", printer |-> "running"]
    /\ probe = NoProbe
    /\ answer = None

NextLoopQueued == LoopChat \/ LoopCmd \/ Continue

SpecLoopQueued == InitLoopQueued /\ [][NextLoopQueued]_vars

\* C27: the channel filter is applied when the loop takes the event, with
\* the effective channel of that moment: a command leaves the events
\* queued as they are, whatever it does to the channel override, and an
\* event taken is accepted if and only if its channel is the effective
\* channel the session has then, not the one it had when the event was
\* queued.
C27_FilterWhenProcessed ==
    [][ /\ TakesLine => rx' = rx
        /\ TakesChatEvent =>
              /\ rx # <<>>
              /\ step'.accepted
                    <=> (Head(rx).channel_id = EffectiveChannel(env))
              /\ env' = env ]_vars

\* An event of channel 42, queued while the effective channel was 7, has
\* been accepted: export channel 42 was taken before it.
C27_Witness ==
    /\ step.kind = "chat" /\ step.accepted
    /\ Unwrap(step.input).channel_id = OtherChannel
    /\ step.before.env.channel_id = Some(OtherChannel)
    /\ budget.delivered = 0

\* An event of channel 7, queued while the effective channel was 7, has
\* been discarded: export channel 42 was taken before it.
C27_WitnessDiscarded ==
    /\ step.kind = "chat" /\ ~step.accepted
    /\ Unwrap(step.input).channel_id = cfg.channel_id
    /\ step.before.env.channel_id = Some(OtherChannel)

\* An event of channel 7 has been accepted after export channel 42 and
\* export unset channel were both taken before it.
C27_WitnessUnset ==
    /\ step.kind = "chat" /\ step.accepted
    /\ Unwrap(step.input).channel_id = cfg.channel_id
    /\ step.before.env.channel_id = None
    /\ cmd_rx = <<>>
    /\ Len(ui) >= 3
    /\ ui[1].s = <<"exported channel =", " ">> \o to_string(OtherChannel)
    /\ ui[3].s = <<"unset channel (back to env)", " ">> \o to_string(cfg.channel_id)

\* ------------------------------------------------------------------ C28

\* The step takes a chat event of the effective channel whose text holds
\* a block.
TakesBlockEvent ==
    /\ step.kind = "select" /\ step'.kind = "chat"
    /\ IsSome(step'.input)
    /\ Unwrap(step'.input).channel_id = EffectiveChannel(env)
    /\ IsSome(detect_pgp(Unwrap(step'.input).content))

\* The step takes a load whose replay handles a message with a block.
TakesLoadWithBlock ==
    /\ step.kind = "select" /\ step'.kind = "cmd"
    /\ IsSome(step'.input)
    /\ IsLoad(Unwrap(step'.input))
    /\ step'.calls # <<>>
    /\ step'.calls[1].fn = "fetch_messages"
    /\ \E i \in 2..Len(step'.calls) : step'.calls[i].fn = "decrypt"

\* C28: the inbox cache changes only in a step that handles a chat event
\* with a block, live on the effective channel or replayed by load; in
\* every other step (any other command, an event without a block or of
\* another channel, the loop going round) it stays as it is, in content
\* and order.
C28_CacheChangesOnlyBySightings ==
    [][ /\ pgp_inbox' # pgp_inbox => (TakesBlockEvent \/ TakesLoadWithBlock)
        /\ (TakesBlockEvent \/ TakesLoadWithBlock) =>
              /\ sightings' # sightings
              /\ pgp_inbox' # <<>>
              /\ pgp_inbox'[Len(pgp_inbox')] = sightings'[Len(sightings')] ]_vars

\* pgp list has run on a cache that holds blocks, and the cache is as it
\* was.
C28_Witness ==
    /\ step.kind = "cmd"
    /\ step.input = Some(<<"pgp", " ", "list">>)
    /\ Len(pgp_inbox) > 1
    /\ pgp_inbox = step.before.inbox

\* ------------------------------------------------------------------ C29

\* The lines after which the input thread leaves its loop: quit, exit or q
\* as typed, and the quit it sends itself when readline fails.
EndsInput == {<<"quit">>, <<"exit">>, <<"q">>}

\* The loop has left Running on a Quit outcome and its Exit was sent to
\* the printer, which holds it still or has printed it and stopped.
TerminatingWithExit ==
    /\ state # "Running"
    /\ step.kind = "cmd" /\ step.outcome = "Quit"
    /\ step.sent # <<>> /\ step.sent[Len(step.sent)].type = "Exit"
    /\ \/ ui # <<>> /\ ui[Len(ui)].type = "Exit"
       \/ threads.printer = "stopped"

\* C29: the input thread sends nothing after a quit line: once it has
\* forwarded quit, exit or q, or sent quit itself on end of input, it has
\* stopped for good, so such a line is the last in the command queue; and
\* with one in the queue the loop in the end leaves Running with Exit sent
\* to the printer.
C29_QuitIsLast ==
    /\ [](\A i \in 1..Len(cmd_rx) :
             cmd_rx[i] \in EndsInput => (i = Len(cmd_rx) /\ threads.input = "stopped"))
    /\ [][ threads.input = "stopped" =>
             /\ threads'.input = "stopped"
             /\ cmd_rx' = cmd_rx \/ (cmd_rx # <<>> /\ cmd_rx' = Tail(cmd_rx)) ]_vars
    /\ (cmd_rx # <<>> /\ cmd_rx[Len(cmd_rx)] \in EndsInput) ~> TerminatingWithExit

\* The input thread has stopped after a quit line; the loop has taken that
\* line, after an item whose output is still queued, and has left Running
\* with Exit queued behind that output.
C29_Witness ==
    /\ TerminatingWithExit
    /\ step.input = Some(<<"quit">>)
    /\ threads.input = "stopped"
    /\ budget.typed = 0
    /\ cmd_rx = <<>>
    /\ Len(ui) > 1
    /\ ui[Len(ui)].type = "Exit"

\* The user typed quit: the input thread has stopped with the line still
\* in the queue, the last there.
C29_WitnessTyped ==
    /\ state = "Running"
    /\ cmd_rx = << <<"quit">> >>
    /\ threads.input = "stopped"
    /\ budget.typed = 0

====
